---- MODULE Spec2Model ----
(***************************************************************************)
(* A model of jam (Javascript API Manager): the request/response pipeline  *)
(* (request, ResponseHandler, parseSetCookies, constructApi), the URL      *)
(* resolver (BasicUrlParser, UrlHandler), and the header assembler         *)
(* (HeaderFactory, HeaderPresets).                                         *)
(*                                                                         *)
(* Strings are sequences of tokens.  A token is a punctuation character,   *)
(* a whitespace character, a percent escape, or a run of characters that   *)
(* no operation of the program ever cuts (a word).                         *)
(***************************************************************************)
EXTENDS Integers, Sequences, FiniteSets, TLC

VARIABLES
  pc,       \* request pipeline: position of the one call in flight
  call,     \* request pipeline: the arguments of the call
  sent,     \* request pipeline: the options handed to fetch
  resp,     \* request pipeline: what the transport delivered
  normOut,  \* request pipeline: how ResponseHandler settled
  reqOut,   \* request pipeline: how request settled
  apiOut,   \* request pipeline: how constructApi settled
  urlCall,  \* URL resolver: the arguments of UrlHandler.parse
  urlOut,   \* URL resolver: the URL returned or the error thrown
  defaultHeaders,    \* HeaderFactory: the stored default headers
  customValidators,  \* HeaderFactory: the registered validators, in order
  last,              \* HeaderFactory: the last call and how it ended
  hist,              \* HeaderFactory: what create() returned for these defaults
  presetCall,        \* HeaderPresets: the preset called and its argument
  presetOut,         \* HeaderPresets: the configuration returned or the error
  errConfig,         \* ApiErrorHandler: the configuration given to the constructor
  errHandler,        \* ApiErrorHandler: this.config
  errCall,           \* ApiErrorHandler: the value handed to handle
  errOut,            \* ApiErrorHandler: the ApiError returned or the error thrown
  cookieCall,        \* parseSetCookies: the cookies a server sent and their header
  cookieOut,         \* parseSetCookies: the cookies parsed or the error thrown
  jam,               \* JamClient: baseUrl, accessToken, headers
  jamCall            \* JamClient: the last verb call and what it dispatched

requestVars == <<pc, call, sent, resp, normOut, reqOut, apiOut>>

urlVars == <<urlCall, urlOut>>

headerVars == <<defaultHeaders, customValidators, last, hist>>

presetVars == <<presetCall, presetOut>>

errorVars == <<errConfig, errHandler, errCall, errOut>>

cookieVars == <<cookieCall, cookieOut>>

clientVars == <<jam, jamCall>>

vars ==
  <<requestVars, urlVars, headerVars, presetVars, errorVars, cookieVars, clientVars>>

\* What the actions of one component leave alone.
notRequestVars == <<urlVars, headerVars, presetVars, errorVars, cookieVars,
   clientVars>>

notUrlVars == <<requestVars, headerVars, presetVars, errorVars, cookieVars,
   clientVars>>

notHeaderVars == <<requestVars, urlVars, presetVars, errorVars, cookieVars,
   clientVars>>

notPresetVars == <<requestVars, urlVars, headerVars, errorVars, cookieVars,
   clientVars>>

notErrorVars == <<requestVars, urlVars, headerVars, presetVars, cookieVars,
   clientVars>>

notCookieVars == <<requestVars, urlVars, headerVars, presetVars, errorVars,
   clientVars>>

notClientVars ==
  <<requestVars, urlVars, headerVars, presetVars, errorVars, cookieVars>>

\* JavaScript's undefined / null / absent header.
Undefined == [kind |-> "undefined"]

None == [kind |-> "none"]

\* ------------------------------------------------------------------ strings

IsWs(c) == c \in {" ", "\t"}

RECURSIVE TrimStart(_)
TrimStart(s) ==
  IF s # <<>> /\ IsWs(Head(s)) THEN TrimStart(Tail(s)) ELSE s

RECURSIVE TrimEnd(_)
TrimEnd(s) ==
  IF s # <<>> /\ IsWs(s[Len(s)]) THEN TrimEnd(SubSeq(s, 1, Len(s) - 1)) ELSE s

\* String.prototype.trim
Trim(s) == TrimEnd(TrimStart(s))

\* String.prototype.split(sep) for a one-token separator: the pieces between
\* the separators, empty pieces kept.
RECURSIVE SplitAt(_, _, _)
SplitAt(s, sep, cur) ==
  IF s = <<>> THEN <<cur>>
  ELSE IF Head(s) = sep THEN <<cur>> \o SplitAt(Tail(s), sep, <<>>)
  ELSE SplitAt(Tail(s), sep, Append(cur, Head(s)))

Split(s, sep) == SplitAt(s, sep, <<>>)

\* String.prototype.includes
Includes(s, needle) ==
  \E i \in 0..(Len(s) - Len(needle)) :
    \A j \in 1..Len(needle) : s[i + j] = needle[j]

\* String.prototype.startsWith
StartsWith(s, prefix) ==
  /\ Len(prefix) <= Len(s)
  /\ \A j \in 1..Len(prefix) : s[j] = prefix[j]

\* String.prototype.toLowerCase, token by token.
LowerTok(t) ==
  CASE t = "Domain" -> "domain"
    [] t = "Path" -> "path"
    [] t = "Expires" -> "expires"
    [] t = "EXPIRES" -> "expires"
    [] t = "Max-Age" -> "max-age"
    [] t = "Secure" -> "secure"
    [] t = "HttpOnly" -> "httponly"
    [] t = "SameSite" -> "samesite"
    [] t = "Accept" -> "accept"
    [] t = "ACCEPT" -> "accept"
    [] t = "Authorization" -> "authorization"
    [] t = "Content-Type" -> "content-type"
    [] t = "X-Id" -> "x-id"
    [] t = "A" -> "a"
    [] t = "APPLICATION/JSON" -> "application/json"
    [] OTHER -> t

ToLowerCase(s) == [i \in 1..Len(s) |-> LowerTok(s[i])]

\* Percent escapes.  "%" alone and "%zz" are malformed escape sequences.
PctDecoded(t) ==
  CASE t = "%20" -> " "
    [] t = "%2C" -> ","
    [] t = "%3D" -> "="
    [] t = "%26" -> "&"
    [] t = "%3B" -> ";"
    [] OTHER -> t

MalformedPct == {"%", "%zz"}

\* decodeURIComponent: throws URIError on a malformed escape sequence.
DecodeURIComponent(s) ==
  IF \E i \in 1..Len(s) : s[i] \in MalformedPct
  THEN [ok |-> FALSE,
        error |-> [kind |-> "URIError", message |-> <<"URI malformed">>]]
  ELSE [ok |-> TRUE, val |-> [i \in 1..Len(s) |-> PctDecoded(s[i])]]

\* A defined value, as opposed to Undefined.
Some(v) == [some |-> v]

\* ------------------------------------------------------------ parseSetCookies

\* The clock reading Date.now() returns while a response is parsed.
Now == 1000

\* new Date(val): the timestamp of a date string, the Invalid Date otherwise
\* (also for undefined).  Timestamps are milliseconds counted from
\* 2021-06-09T00:00:00Z.
InvalidDate == [valid |-> FALSE, time |-> 0]

DateOf(val) ==
  IF val = Undefined THEN InvalidDate
  ELSE IF val.some = <<"Wed", ",", " ", "09 Jun 2021 10:18:14 GMT">>
    THEN [valid |-> TRUE, time |-> 37094000]
  ELSE IF val.some = <<"2021-06-09">>
    THEN [valid |-> TRUE, time |-> 0]
  ELSE InvalidDate

\* parseInt(val): the leading integer of the string, NaN otherwise (also
\* for undefined).
NaN == [nan |-> TRUE]

ParseInt(val) ==
  IF val = Undefined \/ val.some = <<>> THEN NaN
  ELSE CASE Head(val.some) = "60" -> [int |-> 60]
         [] Head(val.some) = "0" -> [int |-> 0]
         [] Head(val.some) = "-5" -> [int |-> -5]
         [] OTHER -> NaN

\* new Date(Date.now() + parseInt(val) * 1000)
MaxAgeDate(val) ==
  IF ParseInt(val) = NaN THEN InvalidDate
  ELSE [valid |-> TRUE, time |-> Now + ParseInt(val).int * 1000]

\* The index of the first non-whitespace token of s at or after i.
RECURSIVE SkipWs(_, _)
SkipWs(s, i) ==
  IF i <= Len(s) /\ IsWs(s[i]) THEN SkipWs(s, i + 1) ELSE i

\* setCookieHeader.split(/(?<!Expires=.*),\s*/): a comma, with the whitespace
\* after it, separates two pieces unless "Expires=" stands anywhere before it.
RECURSIVE SplitCookiesFrom(_, _, _, _)
SplitCookiesFrom(s, i, cur, seenExpires) ==
  IF i > Len(s) THEN <<cur>>
  ELSE IF s[i] = "," /\ ~seenExpires
    THEN <<cur>> \o SplitCookiesFrom(s, SkipWs(s, i + 1), <<>>, seenExpires)
  ELSE SplitCookiesFrom(s, i + 1, Append(cur, s[i]),
         seenExpires \/ (i > 1 /\ s[i] = "=" /\ s[i - 1] = "Expires"))

SplitCookies(s) == SplitCookiesFrom(s, 1, <<>>, FALSE)

\* const [a, b] = str.split("="): the first two pieces, b undefined when the
\* string holds no "=".
SplitPair(str) ==
  LET parts == Split(str, "=")
  IN  [first |-> parts[1],
       second |-> IF Len(parts) >= 2 THEN Some(parts[2]) ELSE Undefined]

\* The switch over one attribute of a cookie.
ApplyAttribute(cookie, attr) ==
  LET kv == SplitPair(attr)
      lowerKey == ToLowerCase(kv.first)
      val == kv.second
  IN  CASE lowerKey = <<"domain">> -> [cookie EXCEPT !.domain = val]
        [] lowerKey = <<"path">> -> [cookie EXCEPT !.path = val]
        [] lowerKey = <<"expires">> -> [cookie EXCEPT !.expires = DateOf(val)]
        [] lowerKey = <<"max-age">> -> [cookie EXCEPT !.expires = MaxAgeDate(val)]
        [] lowerKey = <<"secure">> -> [cookie EXCEPT !.secure = TRUE]
        [] lowerKey = <<"httponly">> -> [cookie EXCEPT !.httpOnly = TRUE]
        [] lowerKey = <<"samesite">> -> [cookie EXCEPT !.sameSite = val]
        [] OTHER -> cookie

RECURSIVE ApplyAttributes(_, _)
ApplyAttributes(cookie, attributes) ==
  IF attributes = <<>> THEN cookie
  ELSE ApplyAttributes(ApplyAttribute(cookie, Head(attributes)), Tail(attributes))

\* The expires field of a cookie no Expires or Max-Age attribute has set.
NoDate == [unset |-> TRUE]

\* One piece of the header: [ok, cookie] or, when decodeURIComponent throws,
\* [ok = FALSE, error].
ParseCookie(cookieStr) ==
  LET raw == Split(cookieStr, ";")
      pieces == [i \in 1..Len(raw) |-> Trim(raw[i])]
      nameValue == SplitPair(pieces[1])
      name == DecodeURIComponent(nameValue.first)
      value == DecodeURIComponent(
                 IF nameValue.second = Undefined THEN <<>> ELSE nameValue.second.some)
  IN  IF ~name.ok THEN [ok |-> FALSE, error |-> name.error]
      ELSE IF ~value.ok THEN [ok |-> FALSE, error |-> value.error]
      ELSE [ok |-> TRUE,
            cookie |-> ApplyAttributes(
              [name |-> name.val, value |-> value.val, domain |-> Undefined,
               path |-> Undefined, expires |-> NoDate, secure |-> FALSE,
               httpOnly |-> FALSE, sameSite |-> Undefined],
              Tail(pieces))]

RECURSIVE ParseCookies(_)
ParseCookies(strs) ==
  IF strs = <<>> THEN [ok |-> TRUE, cookies |-> <<>>]
  ELSE LET first == ParseCookie(Head(strs))
       IN  IF ~first.ok THEN first
           ELSE LET rest == ParseCookies(Tail(strs))
                IN  IF ~rest.ok THEN rest
                    ELSE [ok |-> TRUE, cookies |-> <<first.cookie>> \o rest.cookies]

\* parseSetCookies(headers): the cookies of the set-cookie header, none when
\* the header is absent or empty; the URIError of decodeURIComponent escapes.
parseSetCookies(setCookieHeader) ==
  IF setCookieHeader = Undefined \/ setCookieHeader.some = <<>>
  THEN [ok |-> TRUE, cookies |-> <<>>]
  ELSE ParseCookies(SplitCookies(setCookieHeader.some))

\* ------------------------------------------------------------ ResponseHandler

\* A response carries its content-type and set-cookie headers as fields,
\* Undefined when the header is absent (what Headers.get returns as null).

\* response.ok
ResponseOk(status) == status >= 200 /\ status <= 299

\* The body reader the content type selects.
SelectDecoder(contentType) ==
  IF Includes(contentType, <<"application/json">>) THEN "json"
  ELSE IF Includes(contentType, <<"text/">>) THEN "text"
  ELSE IF Includes(contentType, <<"multipart/form-data">>) THEN "formData"
  ELSE "blob"

\* One body reader of the response: the decoded body, or the error it throws.
ReadBody(response, reader) ==
  IF reader \in response.failing
  THEN [ok |-> FALSE,
        error |-> [kind |-> "TypeError", message |-> <<"body unusable: ", reader>>]]
  ELSE [ok |-> TRUE, val |-> [decoder |-> reader, raw |-> response.raw]]

\* The try/catch around the body readers: the selected reader, and
\* response.text() when it throws; what text() throws then escapes.
DecodeBody(response) ==
  LET contentType ==
        IF response.contentType = Undefined THEN <<>> ELSE response.contentType.some
      first == ReadBody(response, SelectDecoder(contentType))
  IN  IF first.ok THEN first ELSE ReadBody(response, "text")

\* Array.from(Object.entries(response.headers)).reduce(...): a Headers object
\* has no own enumerable string-keyed property, so there is no entry to
\* lowercase.
NormalizeHeaders(response) == <<>>

\* ResponseHandler(response): an envelope, an HttpError, or the error a body
\* reader or parseSetCookies threw.
ResponseHandler(response) ==
  LET body == DecodeBody(response)
      headers == NormalizeHeaders(response)
      cookies == parseSetCookies(response.setCookie)
      meta == [url |-> response.url, type |-> response.type,
               redirected |-> response.redirected, headers |-> headers,
               cookies |-> cookies.cookies]
  IN  IF ~body.ok THEN body.error
      ELSE IF ~cookies.ok THEN cookies.error
      ELSE IF ~ResponseOk(response.status)
        THEN [kind |-> "HttpError", status |-> response.status,
              message |-> response.statusText,
              data |-> [url |-> meta.url, type |-> meta.type,
                        redirected |-> meta.redirected, headers |-> meta.headers,
                        cookies |-> meta.cookies, body |-> body.val]]
      ELSE [kind |-> "envelope", body |-> body.val, headers |-> headers,
            cookies |-> cookies.cookies, meta |-> meta]

\* ------------------------------------------------------------ ApiErrorHandler

\* The decimal text of a status code.
StatusToken(status) ==
  CASE status = 0 -> "0"
    [] status = 200 -> "200"
    [] status = 299 -> "299"
    [] status = 300 -> "300"
    [] status = 400 -> "400"
    [] status = 401 -> "401"
    [] status = 403 -> "403"
    [] status = 404 -> "404"
    [] status = 418 -> "418"
    [] status = 429 -> "429"
    [] status = 500 -> "500"
    [] status = 503 -> "503"
    [] OTHER -> "status"

\* statusMessages of the default configuration.
StatusMessage(status) ==
  CASE status = 400 -> <<"Invalid request">>
    [] status = 401 -> <<"Unauthorized - Please login">>
    [] status = 403 -> <<"Forbidden - Insufficient permissions">>
    [] status = 404 -> <<"Resource not found">>
    [] status = 500 -> <<"Internal server error">>
    [] OTHER -> <<"HTTP Error ", StatusToken(status)>>

IsErrorObject(error) == error.kind \in {"Error", "TypeError", "URIError", "AbortError"}

\* An isNetworkError that knows one phrase only.
isNetworkErrorOnePhrase(error) == Includes(error.message, <<"Network Error">>)

isNetworkError(error) ==
  \/ Includes(error.message, <<"Network Error">>)
  \/ Includes(error.message, <<"Failed to fetch">>)

normalizeError(error) ==
  IF error.kind = "HttpError"
  THEN [kind |-> "ApiError", status |-> error.status,
        message |-> StatusMessage(error.status), details |-> error.data,
        isNetworkError |-> FALSE, originalError |-> error]
  ELSE IF IsErrorObject(error)
  THEN [kind |-> "ApiError", status |-> 0,
        message |-> IF isNetworkError(error)
                    THEN <<"Network error - Please check your connection">>
                    ELSE <<"Unexpected application error">>,
        details |-> Undefined,
        isNetworkError |-> isNetworkError(error), originalError |-> error]
  ELSE [kind |-> "ApiError", status |-> 500,
        message |-> <<"Unknown error occurred">>, details |-> Undefined,
        isNetworkError |-> FALSE, originalError |-> error]

\* handle(error): the normalized error; logging and the status hooks return
\* nothing and leave it as it is.
handle(error) == normalizeError(error)

\* The configured handler.  A key of the caller's configuration is absent
\* (None), present and undefined (Undefined), or present with a value.

\* statusMessages of the constructor's defaults.
DefaultStatusMessages == [c \in {400, 401, 403, 404, 500} |-> StatusMessage(c)]

\* The constructor's defaults: logErrors, logger: console.error, statusMessages.
DefaultConfig ==
  [logErrors |-> Some(TRUE), logger |-> Some("console.error"),
   statusMessages |-> Some(DefaultStatusMessages)]

\* new ApiErrorHandler(config): { ...defaults, ...config }, every key the
\* caller's object holds replaces the default, an undefined value too.
ApiErrorHandler(config) ==
  [logErrors |-> IF config.logErrors = None THEN DefaultConfig.logErrors
                 ELSE config.logErrors,
   logger |-> IF config.logger = None THEN DefaultConfig.logger ELSE config.logger,
   statusMessages |-> IF config.statusMessages = None THEN DefaultConfig.statusMessages
                      ELSE config.statusMessages]

PropertyOfUndefined ==
  [kind |-> "TypeError", message |-> <<"Cannot read properties of undefined">>]

NotAFunction ==
  [kind |-> "TypeError", message |-> <<"this.config.logger is not a function">>]

\* getStatusMessage(status): statusMessages[status] || `HTTP Error ${status}`
getStatusMessage(config, status) ==
  IF config.statusMessages = Undefined
  THEN [ok |-> FALSE, error |-> PropertyOfUndefined]
  ELSE LET table == config.statusMessages.some
       IN  [ok |-> TRUE,
            value |-> IF status \in DOMAIN table /\ table[status] # <<>>
                      THEN table[status]
                      ELSE <<"HTTP Error ", StatusToken(status)>>]

\* normalizeError(error) of a configured handler: the ApiError, or the error
\* thrown on the way.
normalizeErrorIn(config, error) ==
  IF error.kind = "HttpError"
  THEN LET message == getStatusMessage(config, error.status)
       IN  IF ~message.ok THEN message
           ELSE [ok |-> TRUE,
                 value |-> [kind |-> "ApiError", status |-> error.status,
                            message |-> message.value, details |-> error.data,
                            isNetworkError |-> FALSE, originalError |-> error]]
  ELSE [ok |-> TRUE, value |-> normalizeError(error)]

\* this.config.logger({ message, status, details }): what the logger does.
CallLogger(logger, apiError) ==
  IF logger = Undefined THEN [ok |-> FALSE, error |-> NotAFunction]
  ELSE IF logger.some = "throwing"
  THEN [ok |-> FALSE, error |-> [kind |-> "Error", message |-> <<"log failed">>]]
  ELSE [ok |-> TRUE]

\* handleSpecialCases(error): the hook that runs, each a console.warn.
handleSpecialCases(apiError) ==
  CASE apiError.status = 401 -> "handleAuthenticationFailure"
    [] apiError.status = 403 -> "handleForbidden"
    [] apiError.status = 429 -> "handleRateLimit"
    [] OTHER -> "none"

\* handle(error) of a configured handler: the ApiError returned, or the error
\* thrown by normalizeError or by the logger.
handleIn(config, error) ==
  LET apiError == normalizeErrorIn(config, error)
      logs == config.logErrors # Undefined /\ config.logErrors.some
      logged == IF logs THEN CallLogger(config.logger, apiError.value) ELSE [ok |-> TRUE]
  IN  IF ~apiError.ok THEN [ok |-> FALSE, error |-> apiError.error]
      ELSE IF ~logged.ok THEN [ok |-> FALSE, error |-> logged.error]
      ELSE [ok |-> TRUE, value |-> apiError.value, logged |-> logs,
            hook |-> handleSpecialCases(apiError.value)]

\* --------------------------------------------------------------------- request

HttpMethods == {"GET", "POST", "PUT", "DELETE", "PATCH"}

\* A parseOptions in which the caller's options win: { method, ...options }
parseOptionsCallerWins(method, options) ==
  IF options.method = Undefined THEN [options EXCEPT !.method = Some(method)]
  ELSE options

\* parseOptions(method, options): { ...options, method }
parseOptions(method, options) == [options EXCEPT !.method = Some(method)]

\* The caller's options object after parseOptions: the spread copies it.
OptionsAfterParse(method, options) == options

\* A catch clause that drops the text of the failure.
RequestCatchNoText(error) ==
  IF error.kind = "HttpError" THEN error
  ELSE [kind |-> "HttpError", status |-> 0,
        message |-> <<"Network Error">>, data |-> Undefined]

\* The catch clause of request.
RequestCatch(error) ==
  IF error.kind = "HttpError" THEN error
  ELSE [kind |-> "HttpError", status |-> 0,
        message |-> <<"Network Error", ": ">> \o error.message, data |-> Undefined]

\* request(endpoint, method, options) once fetch has settled.  A rejection of
\* fetch is thrown at the await inside the try block and reaches the catch
\* clause; ResponseHandler(response) is returned without await, so the
\* promise of request takes its outcome as it is.
request(fetched) ==
  IF fetched.kind = "throws" THEN RequestCatch(fetched.error)
  ELSE ResponseHandler(fetched.response)

\* A string (a thrown value that is no Error object).
StringValue(s) == [kind |-> "string", text |-> s]

\* The implicit conversion of "..." + e for the ApiError object e.
ObjectToString == "[object Object]"

\* constructApi called without a method: the value thrown inside the try
\* block is caught by its own catch clause and handled a second time.
ConstructApiNoMethod ==
  handle(StringValue(<<"Error occurred in construct API method:: ", ObjectToString>>))

\* The method module constructApi imports (core/httpMethods/<method>): it
\* calls request(url, METHOD, options) and returns its promise.
ApiFunctionDefault(method, options) == parseOptions(method, options)

\* constructApi with a method: apiFunction.default(url, options) is returned
\* without await, so its outcome is the outcome of constructApi.
ConstructApiSettled(requestOutcome) == requestOutcome

\* ------------------------------------------------------------------- URL

UrlPunctuation == {":", "/", "?", "#", "=", "&", ",", " ", "+"}

IsWord(t) == t \notin UrlPunctuation

\* Schemes whose URLs need a host.
SpecialSchemes == {"https", "http"}

\* The index of the first token of s that is in set, Len(s) + 1 when none is.
RECURSIVE FirstIn(_, _, _)
FirstIn(s, set, i) ==
  IF i > Len(s) \/ s[i] \in set THEN i ELSE FirstIn(s, set, i + 1)

RECURSIVE DropSlashes(_)
DropSlashes(s) ==
  IF s # <<>> /\ Head(s) = "/" THEN DropSlashes(Tail(s)) ELSE s

\* The path, query and fragment of what follows the authority (or of a
\* relative reference).
PathOf(s) == SubSeq(s, 1, FirstIn(s, {"?", "#"}, 1) - 1)

QueryOf(s) ==
  LET q == FirstIn(s, {"?", "#"}, 1)
  IN  IF q > Len(s) \/ s[q] = "#" THEN <<>>
      ELSE SubSeq(s, q + 1, FirstIn(s, {"#"}, q) - 1)

FragmentOf(s) == SubSeq(s, FirstIn(s, {"#"}, 1) + 1, Len(s))

UrlFailure == [ok |-> FALSE,
               error |-> [kind |-> "TypeError", message |-> <<"Invalid URL">>]]

\* new URL(s): a scheme, a colon and, for a special scheme, a host.
ParseAbsolute(s) ==
  IF Len(s) < 2 \/ ~IsWord(s[1]) \/ s[2] # ":" THEN UrlFailure
  ELSE LET rest == SubSeq(s, 3, Len(s))
           afterSlashes == DropSlashes(rest)
       IN  IF s[1] \notin SpecialSchemes
           THEN [ok |-> TRUE,
                 url |-> [scheme |-> s[1], host |-> "", path |-> PathOf(rest),
                          search |-> QueryOf(rest), hash |-> FragmentOf(rest)]]
           ELSE IF afterSlashes = <<>> \/ ~IsWord(Head(afterSlashes)) THEN UrlFailure
           ELSE LET tail == Tail(afterSlashes)
                IN  IF tail # <<>> /\ Head(tail) \notin {"/", "?", "#"} THEN UrlFailure
                    ELSE [ok |-> TRUE,
                          url |-> [scheme |-> s[1], host |-> Head(afterSlashes),
                                   path |-> IF PathOf(tail) = <<>> THEN <<"/">>
                                            ELSE PathOf(tail),
                                   search |-> QueryOf(tail),
                                   hash |-> FragmentOf(tail)]]

\* The directory of a path: the path up to and with its last slash.
RECURSIVE DirOf(_)
DirOf(path) ==
  IF path = <<>> \/ path[Len(path)] = "/" THEN path
  ELSE DirOf(SubSeq(path, 1, Len(path) - 1))

\* A relative reference s resolved against the parsed base b.
ResolveRelative(s, b) ==
  IF s = <<>> THEN [b EXCEPT !.hash = <<>>]
  ELSE IF Len(s) >= 2 /\ s[1] = "/" /\ s[2] = "/"
    THEN ParseAbsolute(<<b.scheme, ":">> \o s).url
  ELSE IF s[1] = "/"
    THEN [b EXCEPT !.path = PathOf(s), !.search = QueryOf(s), !.hash = FragmentOf(s)]
  ELSE IF s[1] = "?"
    THEN [b EXCEPT !.search = QueryOf(s), !.hash = FragmentOf(s)]
  ELSE IF s[1] = "#"
    THEN [b EXCEPT !.hash = FragmentOf(s)]
  ELSE [b EXCEPT !.path = DirOf(b.path) \o PathOf(s), !.search = QueryOf(s),
                 !.hash = FragmentOf(s)]

HasScheme(s) == Len(s) >= 2 /\ IsWord(s[1]) /\ s[2] = ":"

\* new URL(url, base).  A base that is given is parsed first and has to be an
\* absolute URL.  A url with a scheme stands alone, except that a special
\* scheme equal to the scheme of the base, not followed by two slashes, leaves
\* a relative reference.  A url without a scheme is resolved against the
\* base, which needs a host.  Every failure is a TypeError.
NewURL(url, base) ==
  LET b == IF base = Undefined THEN UrlFailure ELSE ParseAbsolute(base.some)
      rest == SubSeq(url, 3, Len(url))
      relative ==
        IF HasScheme(url) THEN rest ELSE url
  IN  IF base # Undefined /\ ~b.ok THEN UrlFailure
      ELSE IF HasScheme(url)
              /\ ~(/\ b.ok
                   /\ url[1] \in SpecialSchemes
                   /\ b.url.scheme = url[1]
                   /\ ~StartsWith(rest, <<"/", "/">>))
        THEN ParseAbsolute(url)
      ELSE IF ~b.ok \/ b.url.host = "" THEN UrlFailure
      ELSE IF StartsWith(relative, <<"/", "/">>)
              /\ ~ParseAbsolute(<<b.url.scheme, ":">> \o relative).ok
        THEN UrlFailure
      ELSE [ok |-> TRUE, url |-> ResolveRelative(relative, b.url)]

\* URL.href
Href(u) ==
  <<u.scheme, ":">> \o (IF u.host = "" THEN <<>> ELSE <<"/", "/", u.host>>)
    \o u.path \o (IF u.search = <<>> THEN <<>> ELSE <<"?">> \o u.search)
    \o (IF u.hash = <<>> THEN <<>> ELSE <<"#">> \o u.hash)

InvalidUrlError(message) == [kind |-> "InvalidUrlError", message |-> message]

\* ----------------------------------------------------------- BasicUrlParser

isRelativeUrl(url) == StartsWith(url, <<"/">>)

\* !base: undefined, or the empty string.
NoBase(base) == base = Undefined \/ base.some = <<>>

\* A parser that resolves a url without base against a default origin.
BasicUrlParserParseDefaultBase(url, base) ==
  NewURL(url, IF base = Undefined THEN Some(<<"https", ":", "/", "/", "localhost">>)
              ELSE base)

\* BasicUrlParser.parse(url, base).  The InvalidUrlError thrown inside the try
\* block is caught by the catch clause like the TypeError of new URL.
BasicUrlParserParse(url, base) ==
  LET thrown ==
        IF isRelativeUrl(url) /\ NoBase(base)
        THEN [ok |-> FALSE,
              error |-> InvalidUrlError(
                <<"Invalid URL: ">> \o url
                  \o <<". Please provide the complete url else provide base url.">>)]
        ELSE NewURL(url, base)
  IN  IF thrown.ok THEN thrown
      ELSE [ok |-> FALSE,
            error |-> InvalidUrlError(
              <<"Invalid URL: ">> \o url \o <<". ">> \o thrown.error.message)]

\* --------------------------------------------------------------- UrlHandler

\* value.toString() of a query parameter value: a string as it is, a number
\* or boolean as its text, an array as its elements joined by commas.
RECURSIVE JoinComma(_)
JoinComma(items) ==
  IF items = <<>> THEN <<>>
  ELSE IF Len(items) = 1 THEN items[1]
  ELSE items[1] \o <<",">> \o JoinComma(Tail(items))

ValueToString(value) ==
  CASE value.t = "string" -> value.s
    [] value.t = "number" -> <<value.text>>
    [] value.t = "boolean" -> IF value.b THEN <<"true">> ELSE <<"false">>
    [] value.t = "array" -> JoinComma(value.items)

\* Object.entries(params): the keys that are array indices first, in
\* ascending order, then the other keys in insertion order.
IndexKeys == {<<"1">>, <<"2">>}

IndexOfKey(key) == IF key = <<"1">> THEN 1 ELSE 2

RECURSIVE SortedIndexEntries(_, _)
SortedIndexEntries(params, n) ==
  IF n > 2 THEN <<>>
  ELSE SelectSeq(params, LAMBDA e : e.key \in IndexKeys /\ IndexOfKey(e.key) = n)
         \o SortedIndexEntries(params, n + 1)

ObjectEntries(params) ==
  SortedIndexEntries(params, 1) \o SelectSeq(params, LAMBDA e : e.key \notin IndexKeys)

\* The application/x-www-form-urlencoded byte serializer, token by token.
FormEncodeTok(t) ==
  CASE t = " " -> "+"
    [] t = "," -> "%2C"
    [] t = "=" -> "%3D"
    [] t = "&" -> "%26"
    [] t = "+" -> "%2B"
    [] t = "/" -> "%2F"
    [] t = "?" -> "%3F"
    [] t = "#" -> "%23"
    [] t = ":" -> "%3A"
    [] OTHER -> t

FormEncode(s) == [i \in 1..Len(s) |-> FormEncodeTok(s[i])]

\* URLSearchParams.toString(): name=value pairs joined by "&".
RECURSIVE SerializeEntries(_)
SerializeEntries(entries) ==
  IF entries = <<>> THEN <<>>
  ELSE FormEncode(entries[1][1]) \o <<"=">> \o FormEncode(entries[1][2])
         \o (IF Len(entries) = 1 THEN <<>>
             ELSE <<"&">> \o SerializeEntries(Tail(entries)))

\* searchParams.append(key, value.toString()) for every entry of params.
AppendedEntries(params) ==
  LET entries == ObjectEntries(params)
  IN  [i \in 1..Len(entries) |-> <<entries[i].key, ValueToString(entries[i].value)>>]

buildQueryString(params) == SerializeEntries(AppendedEntries(params))

\* A setter of URL.search that would add the string to the query the URL has.
SetSearchAppending(u, str) ==
  [u EXCEPT !.search = IF @ = <<>> \/ str = <<>> THEN @ \o str
                       ELSE @ \o <<"&">> \o str]

\* The setter of URL.search: the string replaces the query of the URL.  (The
\* serializer has left no character for the query encoder to escape.)
SetSearch(u, str) ==
  [u EXCEPT !.search = IF StartsWith(str, <<"?">>) THEN Tail(str) ELSE str]

\* The setter of URL.hash.
SetHash(u, str) == [u EXCEPT !.hash = str]

\* Base64Encrypto.encrypt(data): the base64 text of data, one token.
Base64Encrypt(data) == <<"base64(">> \o data \o <<")">>

\* A parse that would append every supplied entry to urlObject.searchParams.
UrlHandlerParseAppending(url, base, queryParams, encryptor) ==
  LET parsed == BasicUrlParserParse(url, base)
      withQuery ==
        IF queryParams = Undefined THEN parsed.url
        ELSE SetSearchAppending(parsed.url, buildQueryString(queryParams.some))
      withHash ==
        IF encryptor THEN SetHash(withQuery, Base64Encrypt(Href(withQuery)))
        ELSE withQuery
  IN  IF parsed.ok THEN [ok |-> TRUE, url |-> withHash]
      ELSE [ok |-> FALSE,
            error |-> InvalidUrlError(
              <<"Failed to create URL: ">> \o parsed.error.message)]

\* UrlHandler.parse(url, base, queryParams), with or without an encryptor.
UrlHandlerParse(url, base, queryParams, encryptor) ==
  LET parsed == BasicUrlParserParse(url, base)
      withQuery ==
        IF queryParams = Undefined THEN parsed.url
        ELSE SetSearch(parsed.url, buildQueryString(queryParams.some))
      withHash ==
        IF encryptor THEN SetHash(withQuery, Base64Encrypt(Href(withQuery)))
        ELSE withQuery
  IN  IF parsed.ok THEN [ok |-> TRUE, url |-> withHash]
      ELSE [ok |-> FALSE,
            error |-> InvalidUrlError(
              <<"Failed to create URL: ">> \o parsed.error.message)]

\* The application/x-www-form-urlencoded parser (URL.searchParams): the pairs
\* of a query string, "+" read as a space and escapes decoded.
FormDecodeTok(t) ==
  CASE t = "+" -> " "
    [] t = "%2C" -> ","
    [] t = "%3D" -> "="
    [] t = "%26" -> "&"
    [] t = "%2B" -> "+"
    [] t = "%2F" -> "/"
    [] t = "%3F" -> "?"
    [] t = "%23" -> "#"
    [] t = "%3A" -> ":"
    [] OTHER -> t

FormDecode(s) == [i \in 1..Len(s) |-> FormDecodeTok(s[i])]

\* The text after the first "=" of a piece, empty when it holds none.
AfterFirstEquals(piece) ==
  SubSeq(piece, FirstIn(piece, {"="}, 1) + 1, Len(piece))

BeforeFirstEquals(piece) == SubSeq(piece, 1, FirstIn(piece, {"="}, 1) - 1)

SearchParams(search) ==
  LET pieces == SelectSeq(Split(search, "&"), LAMBDA piece : piece # <<>>)
  IN  [i \in 1..Len(pieces) |->
         <<FormDecode(BeforeFirstEquals(pieces[i])),
           FormDecode(AfterFirstEquals(pieces[i]))>>]

\* ------------------------------------------------------------------ Headers

\* The characters that end a header-name token.  A word holds none of them.
HeaderDelimiters == {" ", "\t", ":", ",", ";", "=", "/", "?", "(", ")", "@"}

\* The Headers class (cross-fetch): a name is an HTTP token, not empty.
IsHttpToken(name) ==
  /\ name # <<>>
  /\ \A i \in 1..Len(name) : name[i] \notin HeaderDelimiters

InvalidNameError(name) ==
  [kind |-> "TypeError", message |-> name \o <<" is not a legal HTTP header name">>]

\* A Headers class that takes any name.
HeadersSetUnchecked(h, name, value) ==
  [ok |-> TRUE,
   headers |-> [n \in DOMAIN h \cup {ToLowerCase(name)} |->
                  IF n = ToLowerCase(name) THEN value ELSE h[n]]]

\* A Headers class that keeps the letter case of the names.
HeadersSetCaseSensitive(h, name, value) ==
  IF ~IsHttpToken(name) THEN [ok |-> FALSE, error |-> InvalidNameError(name)]
  ELSE [ok |-> TRUE,
        headers |-> [n \in DOMAIN h \cup {name} |-> IF n = name THEN value ELSE h[n]]]

\* Headers.set(name, value): the value replaces the one stored under the
\* lowercased name; a name that is no token throws a TypeError.
HeadersSet(h, name, value) ==
  IF ~IsHttpToken(name) THEN [ok |-> FALSE, error |-> InvalidNameError(name)]
  ELSE [ok |-> TRUE,
        headers |-> [n \in DOMAIN h \cup {ToLowerCase(name)} |->
                       IF n = ToLowerCase(name) THEN value ELSE h[n]]]

\* Object.entries(config).forEach(([name, value]) => h.set(name, value)): the
\* entries in order; the first set that throws ends the loop, the entries
\* before it stay set.
RECURSIVE SetAll(_, _)
SetAll(h, entries) ==
  IF entries = <<>> THEN [ok |-> TRUE, headers |-> h]
  ELSE LET first == HeadersSet(h, Head(entries).name, Head(entries).value)
       IN  IF ~first.ok THEN [ok |-> FALSE, error |-> first.error, headers |-> h]
           ELSE SetAll(first.headers, Tail(entries))

\* new Headers(other): a copy.
HeadersCopy(h) == h

EmptyHeaders == [n \in {} |-> <<>>]

\* ------------------------------------------------------------ HeaderFactory

\* /^[a-zA-Z0-9!#$%&'*+-.^_`|~]+$/.test(name): "+-." is the range from "+"
\* to ".", which holds the comma.
RegexAcceptsName(name) ==
  /\ name # <<>>
  /\ \A i \in 1..Len(name) : name[i] \notin (HeaderDelimiters \ {","})

isValidHeaderNames(headers) == \A name \in DOMAIN headers : RegexAcceptsName(name)

\* The validators a caller may register: one demands an x-id header, one
\* refuses an authorization header.
Validators == {"requireXId", "refuseAuthorization"}

ValidatorAccepts(validator, headers) ==
  IF validator = "requireXId" THEN <<"x-id">> \in DOMAIN headers
  ELSE <<"authorization">> \notin DOMAIN headers

\* A run that would invoke every validator and report the first failure
\* at the end.
RECURSIVE RunAllValidators(_, _, _)
RunAllValidators(validators, headers, invoked) ==
  IF validators = <<>> THEN [ok |-> TRUE, invoked |-> invoked]
  ELSE LET rest == RunAllValidators(Tail(validators), headers,
                                    Append(invoked, Head(validators)))
       IN  IF ~ValidatorAccepts(Head(validators), headers)
           THEN [ok |-> FALSE, invoked |-> rest.invoked,
                 error |-> [kind |-> "Error",
                            message |-> <<"rejected by ", Head(validators)>>]]
           ELSE rest

\* customValidators.forEach((validator) => validator(headers)): the
\* validators invoked, and whether one of them threw.
RECURSIVE RunValidators(_, _, _)
RunValidators(validators, headers, invoked) ==
  IF validators = <<>> THEN [ok |-> TRUE, invoked |-> invoked]
  ELSE IF ~ValidatorAccepts(Head(validators), headers)
    THEN [ok |-> FALSE, invoked |-> Append(invoked, Head(validators)),
          error |-> [kind |-> "Error", message |-> <<"rejected by ", Head(validators)>>]]
  ELSE RunValidators(Tail(validators), headers, Append(invoked, Head(validators)))

\* validateHeaders(headers)
validateHeaders(validators, headers) ==
  IF ~isValidHeaderNames(headers)
  THEN [ok |-> FALSE, invoked |-> <<>>,
        error |-> [kind |-> "Error", message |-> <<"Invalid header names detected">>]]
  ELSE RunValidators(validators, headers, <<>>)

\* A create that merges into the stored defaults themselves.
createInPlace(defaults, validators, overrides) ==
  LET merged == SetAll(defaults, IF overrides = Undefined THEN <<>> ELSE overrides.some)
      validated == validateHeaders(validators, merged.headers)
  IN  [defaults |-> merged.headers, alias |-> TRUE,
       out |-> IF ~merged.ok
                 THEN [ok |-> FALSE, error |-> merged.error, invoked |-> <<>>]
               ELSE IF ~validated.ok
                 THEN [ok |-> FALSE, error |-> validated.error,
                       invoked |-> validated.invoked]
               ELSE [ok |-> TRUE, headers |-> merged.headers,
                     invoked |-> validated.invoked]]

\* A create that would hand out the stored defaults themselves when there
\* is nothing to merge.
createSharing(defaults, validators, overrides) ==
  LET merged == SetAll(HeadersCopy(defaults),
                       IF overrides = Undefined THEN <<>> ELSE overrides.some)
      validated == validateHeaders(validators, merged.headers)
  IN  [defaults |-> defaults, alias |-> overrides = Undefined,
       out |-> IF ~merged.ok
                 THEN [ok |-> FALSE, error |-> merged.error, invoked |-> <<>>]
               ELSE IF ~validated.ok
                 THEN [ok |-> FALSE, error |-> validated.error,
                       invoked |-> validated.invoked]
               ELSE [ok |-> TRUE, headers |-> merged.headers,
                     invoked |-> validated.invoked]]

\* create(headers): the merged set or the error thrown, the stored defaults
\* after the call (create works on a copy of them), and whether the set
\* returned is the object that holds the defaults (it is a new Headers).
create(defaults, validators, overrides) ==
  LET merged == SetAll(HeadersCopy(defaults),
                       IF overrides = Undefined THEN <<>> ELSE overrides.some)
      validated == validateHeaders(validators, merged.headers)
  IN  [defaults |-> defaults, alias |-> FALSE,
       out |-> IF ~merged.ok
                 THEN [ok |-> FALSE, error |-> merged.error, invoked |-> <<>>]
               ELSE IF ~validated.ok
                 THEN [ok |-> FALSE, error |-> validated.error,
                       invoked |-> validated.invoked]
               ELSE [ok |-> TRUE, headers |-> merged.headers,
                     invoked |-> validated.invoked]]

\* setDefaultHeaders(headers): the stored defaults after the call.
setDefaultHeaders(defaults, config) == SetAll(defaults, config).headers

\* ------------------------------------------------------------ HeaderPresets

JsonPreset ==
  <<[name |-> <<"Content-Type">>, value |-> <<"application/json">>],
    [name |-> <<"Accept">>, value |-> <<"application/json">>]>>

FormDataPreset == <<[name |-> <<"Content-Type">>, value |-> <<"multipart/form-data">>]>>

\* A bearerToken that refuses the empty token only.
bearerTokenNoTrim(token) ==
  IF token = <<>>
  THEN [ok |-> FALSE,
        error |-> [kind |-> "Error", message |-> <<"Bearer token cannot be empty">>]]
  ELSE [ok |-> TRUE,
        config |-> <<[name |-> <<"Authorization">>, value |-> <<"Bearer ">> \o token]>>]

\* HeaderPresets.bearerToken(token)
bearerToken(token) ==
  IF Trim(token) = <<>>
  THEN [ok |-> FALSE,
        error |-> [kind |-> "Error", message |-> <<"Bearer token cannot be empty">>]]
  ELSE [ok |-> TRUE,
        config |-> <<[name |-> <<"Authorization">>, value |-> <<"Bearer ">> \o token]>>]

\* { ...a, ...b }: the entries of a, a value replaced where b holds the same
\* key, then the entries of b under new keys.
Spread(a, b) ==
  LET replaced(e) ==
        IF \E j \in 1..Len(b) : b[j].name = e.name
        THEN [name |-> e.name,
              value |-> b[CHOOSE j \in 1..Len(b) : b[j].name = e.name].value]
        ELSE e
  IN  [i \in 1..Len(a) |-> replaced(a[i])]
        \o SelectSeq(b, LAMBDA e : \A i \in 1..Len(a) : a[i].name # e.name)

\* ---------------------------------------------------------------- JamClient

Verbs == {"get", "post", "put", "delete", "patch"}

\* The method each verb of JamClient hands to constructUrl.
VerbMethod(verb) ==
  CASE verb = "get" -> "GET"
    [] verb = "post" -> "POST"
    [] verb = "put" -> "PUT"
    [] verb = "delete" -> "PUT"
    [] verb = "patch" -> "PATCH"

\* { ...this.headers }: a copy, the empty object when no header was set.
CopyHeaders(headers) == IF headers = Undefined THEN <<>> ELSE Spread(<<>>, headers.some)

\* The second and third parameter of a verb: get, post, put and patch take
\* (url, payload, queryParams), delete takes (url, queryParams, payload).
PayloadOf(verb, arg2, arg3) == IF verb = "delete" THEN arg3 ELSE arg2

QueryParamsOf(verb, arg2, arg3) == IF verb = "delete" THEN arg2 ELSE arg3

\* get/post/put/delete/patch(url, arg2, arg3): the arguments of constructUrl.
JamClientVerb(client, verb, url, arg2, arg3) ==
  [url |-> [endpoint |-> url, baseUrl |-> client.baseUrl,
            queryParams |-> QueryParamsOf(verb, arg2, arg3)],
   payload |-> PayloadOf(verb, arg2, arg3),
   headers |-> CopyHeaders(client.headers),
   method |-> VerbMethod(verb)]

\* setHeaders(headers): { ...this.headers, ...headers }
JamSetHeaders(client, headers) ==
  [client EXCEPT !.headers =
     Some(Spread(IF client.headers = Undefined THEN <<>> ELSE client.headers.some,
                 headers))]

\* setAuthHeaders(header), the access token set:
\* { ...this.headers, [header]: this.accessToken }
JamSetAuthHeaders(client, header) ==
  JamSetHeaders(client, <<[name |-> header, value |-> client.accessToken.some]>>)

\* configure(options): baseUrl and accessToken are taken where options has
\* the key; a headers key is not read.
JamConfigure(client, options) ==
  [client EXCEPT
     !.baseUrl = IF options.baseUrl = None THEN @ ELSE options.baseUrl,
     !.accessToken = IF options.accessToken = None THEN @ ELSE options.accessToken]

\* ------------------------------------------------- the request pipeline

\* Status codes a response can carry (0: an opaque response).
StatusCodes == {0, 200, 299, 300, 404}

StatusText(status) ==
  CASE status = 200 -> <<"OK">>
    [] status = 404 -> <<"Not Found">>
    [] OTHER -> <<>>

ContentTypes ==
  {Undefined,
   Some(<<"application/json">>),
   Some(<<"application/json", ";", " ", "charset=utf-8">>),
   Some(<<"APPLICATION/JSON">>),
   Some(<<"text/", "plain">>),
   Some(<<"multipart/form-data", ";", " ", "boundary=x">>),
   Some(<<"application/octet-stream">>)}

SetCookieHeaders ==
  {Undefined,
   Some(<<"a", "=", "1", ";", " ", "Path", "=", "/", ";", " ", "HttpOnly", ",",
          " ", "b", "=", "2", ";", " ", "Max-Age", "=", "60">>),
   Some(<<"sid", "=", "x", "%20", "y", ";", " ", "Expires", "=", "Wed", ",", " ",
          "09 Jun 2021 10:18:14 GMT">>),
   Some(<<"a", "=", "1", ";", " ", "Secure", ",", " ", "%zz", "=", "2">>)}

BodyReaders == {"json", "text", "formData", "blob"}

\* The raw body sent with a status: ok, or {"error":"not found"}.
RawBody(status) ==
  IF ResponseOk(status) THEN "ok" ELSE "{\"error\":\"not found\"}"

\* A body is read once: json() and blob() throw once they have consumed it,
\* so text() throws after them; formData() may also throw where the platform
\* lacks it, the body untouched.
BodyReadOnce(failing) ==
  ("json" \in failing \/ "blob" \in failing) => "text" \in failing

\* The responses of the transport: any status, content type and set-cookie
\* header, and any choice of body readers that throw.
Responses ==
  {r \in [status : StatusCodes, contentType : ContentTypes,
          setCookie : SetCookieHeaders, failing : SUBSET BodyReaders] :
     /\ r.status = 0 => (r.contentType = Undefined /\ r.setCookie = Undefined)
     /\ BodyReadOnce(r.failing)}

\* The Response object the transport delivers for a sample.
ResponseOf(r) ==
  [status |-> r.status, statusText |-> StatusText(r.status),
   contentType |-> r.contentType, setCookie |-> r.setCookie,
   failing |-> r.failing, raw |-> RawBody(r.status),
   url |-> "https://api/p", type |-> "basic", redirected |-> FALSE]

\* What fetch rejects with: a TypeError of the platform, or the AbortError.
TransportErrors ==
  {[kind |-> "TypeError", message |-> <<"Failed to fetch">>],
   [kind |-> "TypeError", message |-> <<"Network request failed">>],
   [kind |-> "TypeError", message |-> <<"getaddrinfo ENOTFOUND ", "api">>],
   [kind |-> "AbortError", message |-> <<"The operation was aborted">>],
   [kind |-> "Error", message |-> <<>>]}

\* The options a caller of HTTPClient passes: any method may be pre-set.
CallerOptions ==
  [method : {Undefined, Some("POST")}, headers : {"h0"}, body : {Some("payload")}]

\* HTTPClient.get/post/put/delete/patch(endpoint, options)
CallHttpClient ==
  /\ pc = "idle"
  /\ \E m \in HttpMethods, o \in CallerOptions :
       /\ call' = [via |-> "HTTPClient", method |-> Some(m), options |-> o,
                   optionsAfter |-> OptionsAfterParse(m, o)]
       /\ sent' = parseOptions(m, o)
  /\ pc' = "dispatched"
  /\ UNCHANGED <<resp, normOut, reqOut, apiOut, notRequestVars>>

\* constructApi(url, payload, header, method), whose method module passes
\* its options on to HTTPClient.
CallConstructApi ==
  /\ pc = "idle"
  /\ \E m \in HttpMethods, payload \in {Some("payload")} :
       LET o == [method |-> Undefined, headers |-> "h0", body |-> payload]
       IN  /\ call' = [via |-> "constructApi", method |-> Some(m), options |-> o]
           /\ sent' = ApiFunctionDefault(m, o)
  /\ pc' = "dispatched"
  /\ UNCHANGED <<resp, normOut, reqOut, apiOut, notRequestVars>>

\* constructApi(url, payload, header) with no method.
CallConstructApiNoMethod ==
  /\ pc = "idle"
  /\ call' = [via |-> "constructApi", method |-> Undefined,
              options |-> [method |-> Undefined, headers |-> "h0", body |-> Undefined]]
  /\ apiOut' = ConstructApiNoMethod
  /\ pc' = "done"
  /\ UNCHANGED <<sent, resp, normOut, reqOut, notRequestVars>>

\* How the call settles once fetch has.
Settle(fetched) ==
  /\ resp' = fetched
  /\ normOut' = IF fetched.kind = "throws" THEN None
                ELSE ResponseHandler(fetched.response)
  /\ reqOut' = request(fetched)
  /\ apiOut' = IF call.via = "constructApi"
               THEN ConstructApiSettled(request(fetched)) ELSE None
  /\ pc' = "done"
  /\ UNCHANGED <<call, sent, notRequestVars>>

\* fetch rejects.
TransportFails ==
  /\ pc = "dispatched"
  /\ \E e \in TransportErrors : Settle([kind |-> "throws", error |-> e])

\* fetch resolves with a response.
TransportResponds ==
  /\ pc = "dispatched"
  /\ \E r \in Responses : Settle([kind |-> "response", response |-> ResponseOf(r)])

RequestInit ==
  /\ pc = "idle"
  /\ call = None
  /\ sent = None
  /\ resp = None
  /\ normOut = None
  /\ reqOut = None
  /\ apiOut = None

RequestNext ==
  \/ CallHttpClient
  \/ CallConstructApi
  \/ CallConstructApiNoMethod
  \/ TransportFails
  \/ TransportResponds

\* ------------------------------------------------------- the URL resolver

\* The longest generated url, in tokens.
MaxUrlLen == 3

\* The most entries of a generated query-parameter mapping.
MaxParams == 2

UrlAlphabet == {"https", "p", ":", "/", "?"}

\* Two words in a row are one word.
WellLexed(s) == \A i \in 1..(Len(s) - 1) : ~(IsWord(s[i]) /\ IsWord(s[i + 1]))

GeneratedUrls ==
  {s \in UNION {[1..k -> UrlAlphabet] : k \in 0..MaxUrlLen} : WellLexed(s)}

SampleUrls ==
  {<<"https", ":", "/", "/", "api", "/", "p">>,
   <<"https", ":", "/", "/", "api", "/", "p", "?", "q", "=", "old", "&", "r", "=", "1">>,
   <<"/", "users", "?", "q", "=", "old">>,
   <<"users", "/", "me">>}

Bases ==
  {Undefined, Some(<<>>), Some(<<"https", ":", "/", "/", "api", "/", "v2", "/">>),
   Some(<<"api", "/", "v2">>)}

QueryKeys == {<<"q">>, <<"tags">>, <<"1">>}

QueryValues ==
  {[t |-> "string", s |-> <<"x">>],
   [t |-> "string", s |-> <<"a", "&", "b", " ", "c">>],
   [t |-> "number", text |-> "2"],
   [t |-> "boolean", b |-> TRUE],
   [t |-> "array", items |-> << <<"a">>, <<"b">> >>],
   [t |-> "array", items |-> <<>>]}

\* The mappings of at most MaxParams entries, in insertion order; a key
\* occurs once.
QueryParamSets ==
  {m \in UNION {[1..k -> [key : QueryKeys, value : QueryValues]] : k \in 0..MaxParams} :
     \A i, j \in 1..Len(m) : i # j => m[i].key # m[j].key}

UrlCalls ==
  [url : GeneratedUrls, base : Bases,
   queryParams : {Undefined, Some(<<[key |-> <<"q">>, value |-> [t |-> "string", s |-> <<"x">>]]>>)},
   encryptor : BOOLEAN]
  \cup
  [url : SampleUrls, base : Bases \ {Some(<<>>)},
   queryParams : {Some(m) : m \in QueryParamSets}, encryptor : {FALSE}]

\* urlParser.parse(url, base, queryParams)
ParseUrl ==
  /\ urlCall = None
  /\ \E c \in UrlCalls :
       /\ urlCall' = c
       /\ urlOut' = UrlHandlerParse(c.url, c.base, c.queryParams, c.encryptor)
  /\ UNCHANGED notUrlVars

UrlInit ==
  /\ urlCall = None
  /\ urlOut = None

UrlNext == ParseUrl

\* ------------------------------------------------------ the header factory

MaxOverrides == 2

\* The entries callers pass: names that differ only in case, a name with a
\* space, a name with a comma.
HeaderEntries ==
  {[name |-> <<"Accept">>, value |-> <<"v1">>],
   [name |-> <<"Accept">>, value |-> <<"v2">>],
   [name |-> <<"accept">>, value |-> <<"v2">>],
   [name |-> <<"X-Id">>, value |-> <<"v1">>],
   [name |-> <<"bad", " ", "name">>, value |-> <<"v1">>],
   [name |-> <<"a", ",", "b">>, value |-> <<"v1">>]}

\* A HeaderConfig: an object, its keys distinct, in insertion order.
RECURSIVE ConfigsOfLen(_)
ConfigsOfLen(n) ==
  IF n = 0 THEN {<<>>}
  ELSE {Append(c, e) : c \in ConfigsOfLen(n - 1), e \in HeaderEntries}

DistinctNames(c) == \A i, j \in 1..Len(c) : i # j => c[i].name # c[j].name

HeaderConfigs ==
  {c \in UNION {ConfigsOfLen(n) : n \in 0..MaxOverrides} : DistinctNames(c)}

\* What callers store as defaults.
DefaultConfigs ==
  {<<[name |-> <<"Accept">>, value |-> <<"v1">>],
     [name |-> <<"Authorization">>, value |-> <<"v1">>]>>,
   <<[name |-> <<"X-Id">>, value |-> <<"v2">>],
     [name |-> <<"bad", " ", "name">>, value |-> <<"v1">>],
     [name |-> <<"accept">>, value |-> <<"v2">>]>>}

\* The headers a caller hands to constructHeaders.
RequestHeaders ==
  {<<>>,
   <<[name |-> <<"Accept">>, value |-> <<"v1">>]>>,
   <<[name |-> <<"accept">>, value |-> <<"v1">>]>>,
   <<[name |-> <<"X-Id">>, value |-> <<"v2">>]>>}

\* The set the last call returned, which its caller still holds; heldAlias
\* tells whether it is the object that holds the stored defaults.
Holding == last.kind = "create" /\ last.out.ok

\* Whether the held set reads after a call as it read before: a set of its
\* own always does, the defaults object does while the defaults stay.
HeldIntact(defaultsAfter) ==
  Holding => (last.alias => defaultsAfter = last.out.headers)

\* The record of a create call, and what it does to the history: the first
\* create() after the defaults or the validators changed is the baseline.
Created(overrides) ==
  LET result == create(defaultHeaders, customValidators, overrides)
  IN  /\ defaultHeaders' = result.defaults
      /\ last' = [kind |-> "create", overrides |-> overrides,
                  before |-> defaultHeaders, out |-> result.out,
                  alias |-> result.alias,
                  held |-> Holding, heldIntact |-> HeldIntact(result.defaults)]
      /\ hist' = IF overrides = Undefined
                 THEN [plain |-> IF hist.plain = None THEN Some(result.out)
                                 ELSE hist.plain,
                       overlaid |-> hist.overlaid]
                 ELSE [plain |-> hist.plain, overlaid |-> hist.plain # None]
      /\ UNCHANGED customValidators

Create ==
  /\ \E overrides \in {Undefined} \cup {Some(c) : c \in HeaderConfigs} :
       Created(overrides)
  /\ UNCHANGED notHeaderVars

\* constructHeaders: create({ ...HeaderPresets.json(), ...headers })
ConstructHeaders ==
  /\ \E headers \in RequestHeaders : Created(Some(Spread(JsonPreset, headers)))
  /\ UNCHANGED notHeaderVars

SetDefaultHeaders ==
  /\ \E config \in DefaultConfigs :
       /\ defaultHeaders' = setDefaultHeaders(defaultHeaders, config)
       /\ last' = [kind |-> "setDefaultHeaders", config |-> config,
                   held |-> Holding,
                   changed |-> setDefaultHeaders(defaultHeaders, config) # defaultHeaders,
                   heldIntact |-> HeldIntact(setDefaultHeaders(defaultHeaders, config))]
  /\ hist' = [plain |-> None, overlaid |-> FALSE]
  /\ UNCHANGED customValidators
  /\ UNCHANGED notHeaderVars

\* addValidator(validator), a validator registered once.
AddValidator ==
  /\ \E validator \in Validators :
       /\ \A i \in 1..Len(customValidators) : customValidators[i] # validator
       /\ customValidators' = Append(customValidators, validator)
       /\ last' = [kind |-> "addValidator", validator |-> validator]
  /\ hist' = [plain |-> None, overlaid |-> FALSE]
  /\ UNCHANGED defaultHeaders
  /\ UNCHANGED notHeaderVars

\* new HeaderFactory()
HeaderInit ==
  /\ defaultHeaders = EmptyHeaders
  /\ customValidators = <<>>
  /\ last = None
  /\ hist = [plain |-> None, overlaid |-> FALSE]

HeaderNext == Create \/ ConstructHeaders \/ SetDefaultHeaders \/ AddValidator

\* ------------------------------------------------------ the header presets

MaxTokenLen == 3

TokenAlphabet == {" ", "\t", "abc", "x.y", "Bearer"}

RECURSIVE TokensOfLen(_)
TokensOfLen(n) ==
  IF n = 0 THEN {<<>>}
  ELSE {Append(t, c) : t \in TokensOfLen(n - 1), c \in TokenAlphabet}

Tokens == UNION {TokensOfLen(n) : n \in 0..MaxTokenLen}

CallBearerToken ==
  /\ \E token \in Tokens :
       /\ presetCall' = [preset |-> "bearerToken", token |-> token]
       /\ presetOut' = bearerToken(token)
  /\ UNCHANGED notPresetVars

CallJson ==
  /\ presetCall' = [preset |-> "json"]
  /\ presetOut' = [ok |-> TRUE, config |-> JsonPreset]
  /\ UNCHANGED notPresetVars

CallFormData ==
  /\ presetCall' = [preset |-> "formData"]
  /\ presetOut' = [ok |-> TRUE, config |-> FormDataPreset]
  /\ UNCHANGED notPresetVars

PresetInit ==
  /\ presetCall = None
  /\ presetOut = None

PresetNext == CallBearerToken \/ CallJson \/ CallFormData

\* ------------------------------------------------------ the error handler

\* Tables a caller configures: a new code, a default code replaced and a code
\* with an empty message, no code at all.
StatusTables ==
  {[c \in {418} |-> <<"I am a teapot">>],
   [c \in {404, 503} |-> IF c = 404 THEN <<"Gone missing">> ELSE <<>>],
   [c \in {} |-> <<>>]}

ErrorConfigs ==
  [logErrors : {None, Undefined, Some(TRUE), Some(FALSE)},
   logger : {None, Undefined, Some("custom"), Some("throwing")},
   statusMessages : {None, Undefined} \cup {Some(t) : t \in StatusTables}]

ErrorStatuses == {400, 401, 403, 404, 418, 429, 500, 503}

\* What is handed to handle: HttpErrors, other Error objects, other values.
HandledValues ==
  [kind : {"HttpError"}, status : ErrorStatuses, message : {<<"Not Found">>},
   data : {Undefined, [body |-> "{\"error\":\"not found\"}"]}]
    \cup TransportErrors
    \cup {[kind |-> "Error", message |-> <<"Network Error", ": ", "Failed to fetch">>],
          [kind |-> "Error", message |-> <<"network error">>],
          StringValue(<<"Please provide the HTTP Method">>),
          StringValue(<<"Network Error">>),
          Undefined}

NewApiErrorHandler ==
  /\ \E config \in ErrorConfigs :
       /\ errConfig' = config
       /\ errHandler' = ApiErrorHandler(config)
  /\ errCall' = None
  /\ errOut' = None
  /\ UNCHANGED notErrorVars

Handle ==
  /\ errHandler # None
  /\ \E error \in HandledValues :
       /\ errCall' = error
       /\ errOut' = handleIn(errHandler, error)
  /\ UNCHANGED <<errConfig, errHandler>>
  /\ UNCHANGED notErrorVars

ErrorInit ==
  /\ errConfig = None
  /\ errHandler = None
  /\ errCall = None
  /\ errOut = None

ErrorNext == NewApiErrorHandler \/ Handle

\* ------------------------------------------------------ the cookie parser

\* The most attributes of the first cookie of a generated header.
MaxAttrs == 2

HttpDate == <<"Wed", ",", " ", "09 Jun 2021 10:18:14 GMT">>

\* The attributes a server sends: a key and, after "=", a value.
WellFormedAttrs ==
  {[key |-> "Path", val |-> Some(<<"/">>)],
   [key |-> "Path", val |-> Some(<<"/a", "=", "b">>)],
   [key |-> "Domain", val |-> Some(<<"example.com">>)],
   [key |-> "Secure", val |-> Undefined],
   [key |-> "HttpOnly", val |-> Undefined],
   [key |-> "Max-Age", val |-> Some(<<"60">>)],
   [key |-> "Expires", val |-> Some(HttpDate)],
   [key |-> "expires", val |-> Some(HttpDate)]}

\* Malformed attributes: one that lacks its "=value", an unknown name, a
\* date that does not parse, a Max-Age that is no number.
MalformedAttrs ==
  {[key |-> "Path", val |-> Undefined],
   [key |-> "Foo", val |-> Some(<<"bar">>)],
   [key |-> "Expires", val |-> Some(<<"garbage">>)],
   [key |-> "Max-Age", val |-> Some(<<"abc">>)]}

CookieAttrs == WellFormedAttrs \cup MalformedAttrs

RECURSIVE AttrsOfLen(_)
AttrsOfLen(n) ==
  IF n = 0 THEN {<<>>}
  ELSE {Append(as, a) : as \in AttrsOfLen(n - 1), a \in CookieAttrs}

\* No attribute twice in a cookie, whatever the letter case.
DistinctKeys(as) ==
  \A i, j \in 1..Len(as) : i # j => LowerTok(as[i].key) # LowerTok(as[j].key)

AttrLists(n) == {as \in UNION {AttrsOfLen(k) : k \in 0..n} : DistinctKeys(as)}

\* The value of a cookie after "=": plain, with an escape, with a "=" in
\* it, empty, or absent along with the "=".
CookieValues ==
  {Some(<<"1">>), Some(<<"x", "%20", "y">>), Some(<<"x", "=", "y">>), Some(<<>>),
   Undefined}

FirstCookies ==
  [name : {"a"}, value : CookieValues, attrs : AttrLists(MaxAttrs)]
    \cup [name : {"%26"}, value : {Some(<<"1">>)}, attrs : {<<>>}]

LaterCookies == [name : {"b"}, value : {Some(<<"2">>)}, attrs : AttrLists(1)]

SentCookies == {<<c>> : c \in FirstCookies} \cup (FirstCookies \X LaterCookies)

\* The text of a cookie in the header: name=value; key=val; key
RECURSIVE RenderAttrs(_)
RenderAttrs(as) ==
  IF as = <<>> THEN <<>>
  ELSE <<";", " ", Head(as).key>>
         \o (IF Head(as).val = Undefined THEN <<>> ELSE <<"=">> \o Head(as).val.some)
         \o RenderAttrs(Tail(as))

RenderCookie(c) ==
  <<c.name>> \o (IF c.value = Undefined THEN <<>> ELSE <<"=">> \o c.value.some)
    \o RenderAttrs(c.attrs)

\* What headers.get("set-cookie") returns: the cookies joined by ", ".
RECURSIVE RenderSetCookie(_)
RenderSetCookie(cs) ==
  IF Len(cs) = 1 THEN RenderCookie(cs[1])
  ELSE RenderCookie(Head(cs)) \o <<",", " ">> \o RenderSetCookie(Tail(cs))

ParseSetCookies ==
  /\ cookieCall = None
  /\ \E cs \in SentCookies :
       /\ cookieCall' = [cookies |-> cs, header |-> RenderSetCookie(cs)]
       /\ cookieOut' = parseSetCookies(Some(RenderSetCookie(cs)))
  /\ UNCHANGED notCookieVars

CookieInit ==
  /\ cookieCall = None
  /\ cookieOut = None

CookieNext == ParseSetCookies

\* ------------------------------------------------------ the client

ClientBaseUrls == {<<"https", ":", "/", "/", "api", "/", "v1", "/">>,
                   <<"https", ":", "/", "/", "api", "/", "v2", "/">>}

ClientTokens == {<<"t1">>}

ClientHeaderSets ==
  {<<[name |-> <<"Accept">>, value |-> <<"v1">>]>>,
   <<[name |-> <<"X-Id">>, value |-> <<"v2">>],
     [name |-> <<"Accept">>, value |-> <<"v2">>]>>}

ClientOptions ==
  [baseUrl : {None, Undefined} \cup {Some(b) : b \in ClientBaseUrls},
   accessToken : {None, Undefined} \cup {Some(t) : t \in ClientTokens}]

ClientPaths == {<<"/", "users">>, <<"users", "/", "me">>}

\* What a caller passes second and third: nothing, or an object (a payload
\* or the query parameters).
ClientObjects ==
  {Undefined,
   Some(<<[key |-> <<"name">>, value |-> [t |-> "string", s |-> <<"n">>]]>>),
   Some(<<[key |-> <<"q">>, value |-> [t |-> "string", s |-> <<"x">>]]>>)}

Configure ==
  /\ \E options \in ClientOptions : jam' = JamConfigure(jam, options)
  /\ jamCall' = None
  /\ UNCHANGED notClientVars

SetAccessToken ==
  /\ \E token \in ClientTokens : jam' = [jam EXCEPT !.accessToken = Some(token)]
  /\ jamCall' = None
  /\ UNCHANGED notClientVars

SetBaseUrl ==
  /\ \E baseUrl \in ClientBaseUrls : jam' = [jam EXCEPT !.baseUrl = Some(baseUrl)]
  /\ jamCall' = None
  /\ UNCHANGED notClientVars

SetHeaders ==
  /\ \E headers \in ClientHeaderSets : jam' = JamSetHeaders(jam, headers)
  /\ jamCall' = None
  /\ UNCHANGED notClientVars

\* setAuthHeaders(header); without an access token it throws and sets nothing.
SetAuthHeaders ==
  /\ jam.accessToken # Undefined
  /\ jam' = JamSetAuthHeaders(jam, <<"Authorization">>)
  /\ jamCall' = None
  /\ UNCHANGED notClientVars

CallVerb ==
  /\ \E verb \in Verbs, url \in ClientPaths, arg2 \in ClientObjects,
        arg3 \in ClientObjects :
       jamCall' = [verb |-> verb, url |-> url, arg2 |-> arg2, arg3 |-> arg3,
                   dispatched |-> JamClientVerb(jam, verb, url, arg2, arg3)]
  /\ UNCHANGED jam
  /\ UNCHANGED notClientVars

\* new JamClient()
ClientInit ==
  /\ jam = [baseUrl |-> Undefined, accessToken |-> Undefined, headers |-> Undefined]
  /\ jamCall = None

ClientNext ==
  \/ Configure
  \/ SetAccessToken
  \/ SetBaseUrl
  \/ SetHeaders
  \/ SetAuthHeaders
  \/ CallVerb

\* ------------------------------------------------------------ specifications

\* The request pipeline.
Init == RequestInit /\ UrlInit /\ HeaderInit /\ PresetInit /\ ErrorInit
          /\ CookieInit /\ ClientInit

Next == RequestNext

Spec == Init /\ [][Next]_vars

\* The URL resolver.
SpecUrl == Init /\ [][UrlNext]_vars

\* The header factory.
SpecHeader == Init /\ [][HeaderNext]_vars

\* The header presets.
SpecPreset == Init /\ [][PresetNext]_vars

\* The error handler.
SpecError == Init /\ [][ErrorNext]_vars

\* The cookie parser.
SpecCookie == Init /\ [][CookieNext]_vars

\* The client.
SpecClient == Init /\ [][ClientNext]_vars

\* ------------------------------------------------- claims: request pipeline

\* C1: request settles in exactly two ways: it resolves with a response
\* envelope or rejects with an HttpError; no other exception (of the
\* transport, of body decoding, of the text fallback, of cookie parsing)
\* reaches the caller.
C1_TypedOutcomes ==
  (pc = "done" /\ resp.kind \in {"throws", "response"})
    => reqOut.kind \in {"envelope", "HttpError"}

\* A lemma beside C2 and C3: an HttpError that ResponseHandler raises is the
\* outcome of request, and of constructApi, as it stands.
HttpErrorPassesThrough ==
  (pc = "done" /\ normOut.kind = "HttpError")
    => /\ reqOut = normOut
       /\ call.via = "constructApi" => apiOut = normOut

\* C2: for a response with a status outside 200..299 the caller of request,
\* and of constructApi, receives the HttpError of the normalizer: its status
\* is the status of the response and its details.body is the decoded body.
C2_StatusErrorUnchanged ==
  (pc = "done" /\ resp.kind = "response" /\ ~ResponseOk(resp.response.status))
    => /\ reqOut.kind = "HttpError"
       /\ reqOut.status = resp.response.status
       /\ reqOut.data.body = DecodeBody(resp.response).val
       /\ reqOut = normOut
       /\ call.via = "constructApi" => apiOut = reqOut

\* C3: ResponseHandler returns an envelope exactly for the statuses 200..299,
\* and raises for every other status an HttpError with that status, the
\* status text, and the metadata and decoded body as details.
C3_EnvelopeIffOk ==
  (pc = "done" /\ resp.kind = "response")
    => LET r == resp.response
       IN  /\ normOut.kind = "envelope" <=> ResponseOk(r.status)
           /\ ~ResponseOk(r.status)
                => /\ normOut.kind = "HttpError"
                   /\ normOut.status = r.status
                   /\ normOut.message = r.statusText
                   /\ normOut.data.url = r.url
                   /\ normOut.data.body = DecodeBody(r).val

\* C4: when fetch throws, request rejects with an HttpError of status 0 whose
\* message contains the message of the failure.
C4_NetworkError ==
  (pc = "done" /\ resp.kind = "throws")
    => /\ reqOut.kind = "HttpError"
       /\ reqOut.status = 0
       /\ Includes(reqOut.message, resp.error.message)

C4_Witness ==
  /\ pc = "done"
  /\ resp.kind = "throws"
  /\ resp.error.message = <<"Failed to fetch">>
  /\ reqOut.kind = "HttpError"
  /\ reqOut.message = <<"Network Error", ": ", "Failed to fetch">>

\* C30: the error request raises for a transport failure, passed to
\* ApiErrorHandler.handle, gives status 0 and isNetworkError = true; it is
\* not classified as an HTTP status error with isNetworkError = false.
C30_TransportFailureIsNetworkError ==
  (pc = "done" /\ resp.kind = "throws")
    => /\ handle(reqOut).status = 0
       /\ handle(reqOut).isNetworkError = TRUE

\* Beside C30: handle classifies it by its HttpError rule, with the status
\* message of status 0 and the error request raised as originalError.
TransportFailureHandledAsHttpError ==
  (pc = "done" /\ resp.kind = "throws")
    => /\ handle(reqOut).status = 0
       /\ handle(reqOut).isNetworkError = FALSE
       /\ handle(reqOut).message = <<"HTTP Error ", "0">>
       /\ handle(reqOut).originalError = reqOut

\* C11: the options passed to the transport carry the method argument of
\* request whatever method the caller's options pre-set; every other caller
\* option is passed through unchanged, and the caller's options object is not
\* modified.
C11_MethodWins ==
  (pc # "idle" /\ call.via = "HTTPClient")
    => /\ sent.method = call.method
       /\ sent.headers = call.options.headers
       /\ sent.body = call.options.body
       /\ DOMAIN sent = DOMAIN call.options
       /\ call.optionsAfter = call.options

\* A GET dispatched for a caller whose options pre-set POST.
C11_Witness ==
  /\ pc = "dispatched"
  /\ call.via = "HTTPClient"
  /\ call.method = Some("GET")
  /\ call.options.method = Some("POST")
  /\ sent.method = Some("GET")

\* The headers of a response of the model, names as the server wrote them.
ResponseHeaders(r) ==
  (IF r.contentType = Undefined THEN {}
   ELSE {[name |-> <<"Content-Type">>, value |-> r.contentType.some]})
    \cup (IF r.setCookie = Undefined THEN {}
          ELSE {[name |-> <<"Set-Cookie">>, value |-> r.setCookie.some]})

HoldsEachHeader(headers, r) ==
  \A h \in ResponseHeaders(r) :
    /\ <<LowerTok(h.name[1])>> \in DOMAIN headers
    /\ headers[<<LowerTok(h.name[1])>>] = h.value

\* C17: the headers mapping of the envelope, and meta.headers, hold one entry
\* for each header of the response, keyed by the lowercased name and holding
\* the value unchanged.
C17_HeadersNormalized ==
  (pc = "done" /\ resp.kind = "response" /\ normOut.kind = "envelope")
    => /\ HoldsEachHeader(normOut.headers, resp.response)
       /\ HoldsEachHeader(normOut.meta.headers, resp.response)

\* The body a settled ResponseHandler carries.
BodyOf(out) == IF out.kind = "envelope" THEN out.body ELSE out.data.body

\* The MIME type of a content type: the text before the first ";", in lower
\* case.
MimeType(contentType) ==
  IF contentType = Undefined THEN <<>>
  ELSE ToLowerCase(SubSeq(contentType.some, 1,
                          FirstIn(contentType.some, {";"}, 1) - 1))

\* The decoder C18 names for a content type.
ExpectedDecoder(contentType) ==
  LET mime == MimeType(contentType)
  IN  IF mime = <<"application/json">> THEN "json"
      ELSE IF mime # <<>> /\ Head(mime) = "text/" THEN "text"
      ELSE IF mime = <<"multipart/form-data">> THEN "formData"
      ELSE "blob"

\* C18: the body decoder follows the declared content type, compared
\* case-insensitively on the MIME type, its parameters ignored:
\* application/json -> JSON, text/* -> text, multipart/form-data -> form
\* data, anything else or no content type -> blob.
C18_DecoderByContentType ==
  (/\ pc = "done" /\ resp.kind = "response"
   /\ resp.response.failing = {}
   /\ normOut.kind \in {"envelope", "HttpError"})
    => BodyOf(normOut).decoder = ExpectedDecoder(resp.response.contentType)

\* Beside C18: it is so for a content type written in lower case.
DecoderByLowerCaseType ==
  (/\ pc = "done" /\ resp.kind = "response"
   /\ resp.response.failing = {}
   /\ normOut.kind \in {"envelope", "HttpError"}
   /\ resp.response.contentType # Undefined
   /\ resp.response.contentType.some = ToLowerCase(resp.response.contentType.some))
    => BodyOf(normOut).decoder = ExpectedDecoder(resp.response.contentType)

SelectedDecoder(r) ==
  SelectDecoder(IF r.contentType = Undefined THEN <<>> ELSE r.contentType.some)

\* C19: when the decoder the content type selects throws, the body is
\* decoded as text and the decoding error is not surfaced: the call ends in
\* an envelope (2xx) or an HttpError that carries the text body.
C19_FallbackToText ==
  (/\ pc = "done" /\ resp.kind = "response"
   /\ SelectedDecoder(resp.response) \in resp.response.failing
   /\ parseSetCookies(resp.response.setCookie).ok)
    => /\ normOut.kind = IF ResponseOk(resp.response.status) THEN "envelope"
                         ELSE "HttpError"
       /\ BodyOf(normOut).decoder = "text"

\* Beside C19: it is so whenever response.text() itself does not throw.
FallbackWhenTextReads ==
  (/\ pc = "done" /\ resp.kind = "response"
   /\ SelectedDecoder(resp.response) \in resp.response.failing
   /\ "text" \notin resp.response.failing
   /\ parseSetCookies(resp.response.setCookie).ok)
    => /\ normOut.kind = IF ResponseOk(resp.response.status) THEN "envelope"
                         ELSE "HttpError"
       /\ BodyOf(normOut).decoder = "text"

\* ------------------------------------------------------ claims: URL resolver

\* C5: a path that is relative (it starts with "/", or does not parse as an
\* absolute URL on its own) and is resolved with no base URL fails with an
\* InvalidUrlError, and no URL is returned.
C5_RelativeNeedsBase ==
  (/\ urlCall # None
   /\ urlCall.base = Undefined
   /\ (StartsWith(urlCall.url, <<"/">>) \/ ~ParseAbsolute(urlCall.url).ok))
    => /\ ~urlOut.ok
       /\ urlOut.error.kind = "InvalidUrlError"
       /\ "url" \notin DOMAIN urlOut

C5_Witness ==
  /\ urlCall # None
  /\ urlCall.url = <<"/", "users", "?", "q", "=", "old">>
  /\ urlCall.base = Undefined
  /\ ~urlOut.ok
  /\ urlOut.error.kind = "InvalidUrlError"

\* The entries C6 expects of a mapping: one per scalar, one per element of a
\* sequence, keys in insertion order.
RECURSIVE ExpectedEntries(_)
ExpectedEntries(params) ==
  IF params = <<>> THEN <<>>
  ELSE LET e == Head(params)
       IN  (IF e.value.t = "array"
            THEN [i \in 1..Len(e.value.items) |-> <<e.key, e.value.items[i]>>]
            ELSE << <<e.key, ValueToString(e.value)>> >>)
             \o ExpectedEntries(Tail(params))

\* C6: the query string of the resolved URL holds one entry per scalar value
\* and one per element of each sequence value, keys in insertion order and
\* elements in sequence order, and parsing it gives those pairs back.
C6_OneEntryPerValue ==
  (urlCall # None /\ urlCall.queryParams # Undefined /\ urlOut.ok)
    => SearchParams(urlOut.url.search) = ExpectedEntries(urlCall.queryParams.some)

\* Beside C6: for string, number and boolean values under keys that are no
\* array indices the entries are as C6 says.
ScalarEntriesRoundTrip ==
  (/\ urlCall # None /\ urlCall.queryParams # Undefined /\ urlOut.ok
   /\ \A i \in 1..Len(urlCall.queryParams.some) :
        /\ urlCall.queryParams.some[i].value.t # "array"
        /\ urlCall.queryParams.some[i].key \notin IndexKeys)
    => SearchParams(urlOut.url.search) = ExpectedEntries(urlCall.queryParams.some)

\* The query string of the path as the parser resolves it, before any
\* parameter is applied.
PathQuery == BasicUrlParserParse(urlCall.url, urlCall.base).url.search

QueryInjected ==
  /\ urlCall # None
  /\ urlCall.queryParams # Undefined
  /\ urlOut.ok
  /\ PathQuery # <<>>

\* C21: when queryParams are supplied and the path already holds a query
\* string, the query string of the resolved URL consists of the supplied
\* parameters only; every entry of the path's own query string is gone.
C21_QueryReplaced ==
  QueryInjected
    => /\ urlOut.url.search = buildQueryString(urlCall.queryParams.some)
       /\ SearchParams(urlOut.url.search) = AppendedEntries(urlCall.queryParams.some)

\* A path with two query entries, resolved with a parameter of another key.
C21_Witness ==
  /\ QueryInjected
  /\ SearchParams(PathQuery) = << <<<<"q">>, <<"old">>>>, <<<<"r">>, <<"1">>>> >>
  /\ SearchParams(urlOut.url.search) = << <<<<"tags">>, <<"x">>>> >>

\* The entries of a query string under one key, in order.
EntriesUnder(entries, key) == SelectSeq(entries, LAMBDA e : e[1] = key)

\* The keys that the path's query string and the supplied parameters share.
SharedKeys ==
  {e[1] : e \in {SearchParams(PathQuery)[i] : i \in DOMAIN SearchParams(PathQuery)}}
    \cap {urlCall.queryParams.some[i].key : i \in DOMAIN urlCall.queryParams.some}

\* C22, as claimed: under a key that the path's query string and the
\* supplied parameters share, the resolved URL keeps the path's entry and
\* the supplied entry after it.
C22_DuplicatesKept ==
  QueryInjected
    => \A key \in SharedKeys :
         EntriesUnder(SearchParams(urlOut.url.search), key)
           = EntriesUnder(SearchParams(PathQuery), key)
               \o EntriesUnder(AppendedEntries(urlCall.queryParams.some), key)

\* C22, amended: under a key that the path's query string and the supplied
\* parameters share, the resolved URL holds the supplied entry only; the
\* path's entry under that key is dropped.
C22_SuppliedEntryOnly ==
  QueryInjected
    => \A key \in SharedKeys :
         EntriesUnder(SearchParams(urlOut.url.search), key)
           = EntriesUnder(AppendedEntries(urlCall.queryParams.some), key)

\* The path holds q=old and q is supplied: the result holds the supplied q.
C22_Witness ==
  /\ QueryInjected
  /\ <<"q">> \in SharedKeys
  /\ EntriesUnder(SearchParams(PathQuery), <<"q">>) = << <<<<"q">>, <<"old">>>> >>
  /\ EntriesUnder(SearchParams(urlOut.url.search), <<"q">>) = << <<<<"q">>, <<"x">>>> >>

\* The InvalidUrlError created where the resolution fails: the one
\* BasicUrlParser.parse throws for a relative url without base, else the one
\* it makes of the TypeError of new URL.
FirstInvalidUrlError ==
  IF isRelativeUrl(urlCall.url) /\ NoBase(urlCall.base)
  THEN InvalidUrlError(
         <<"Invalid URL: ">> \o urlCall.url
           \o <<". Please provide the complete url else provide base url.">>)
  ELSE InvalidUrlError(
         <<"Invalid URL: ">> \o urlCall.url \o <<". ">>
           \o NewURL(urlCall.url, urlCall.base).error.message)

\* C29: when the resolution of a URL fails, the caller of UrlHandler.parse
\* receives the InvalidUrlError created at the point of failure; no later
\* stage wraps it in an InvalidUrlError of another message.
C29_ErrorNotRewrapped ==
  (urlCall # None /\ ~urlOut.ok) => urlOut.error = FirstInvalidUrlError

\* Beside C29: the error received is an InvalidUrlError whose message holds
\* the message of the first one after other text.
FirstMessageWrapped ==
  (urlCall # None /\ ~urlOut.ok)
    => /\ urlOut.error.kind = "InvalidUrlError"
       /\ urlOut.error.message # FirstInvalidUrlError.message
       /\ Includes(urlOut.error.message, FirstInvalidUrlError.message)

\* ---------------------------------------------------- claims: header factory

\* C7: create never changes the stored default headers: after create calls
\* with arbitrary overrides, create() with no overrides returns the pairs it
\* returned before them, and two consecutive create() calls return the same
\* pairs.
C7_CreateKeepsDefaults ==
  (last.kind = "create")
    => /\ defaultHeaders = last.before
       /\ (last.overrides = Undefined /\ hist.plain # None)
            => hist.plain = Some(last.out)

\* A create() that returns the baseline after a create with overrides.
C7_Witness ==
  /\ last.kind = "create"
  /\ last.overrides = Undefined
  /\ hist.overlaid
  /\ last.out.ok
  /\ DOMAIN last.out.headers # {}
  /\ hist.plain = Some(last.out)

\* The token grammar [A-Za-z0-9!#$%&'*+-.^_`|~]+ with "-" a literal hyphen.
MatchesTokenGrammar(name) ==
  /\ name # <<>>
  /\ \A i \in 1..Len(name) :
       name[i] \notin {" ", "\t", ":", ",", ";", "=", "/", "?", "(", ")", "@"}

OverrideNames(overrides) ==
  IF overrides = Undefined THEN {}
  ELSE {overrides.some[i].name : i \in 1..Len(overrides.some)}

\* C8: create returns a header set only when every name of the merged set
\* matches the token grammar; when a name violates it (a space, ":" or ","),
\* create fails and returns no set, not a partially merged one either.
C8_InvalidNameFails ==
  (last.kind = "create")
    => /\ last.out.ok =>
            /\ \A name \in OverrideNames(last.overrides) : MatchesTokenGrammar(name)
            /\ \A name \in DOMAIN last.out.headers : MatchesTokenGrammar(name)
       /\ (\E name \in OverrideNames(last.overrides) : ~MatchesTokenGrammar(name))
            => /\ ~last.out.ok
               /\ "headers" \notin DOMAIN last.out

\* A create that fails on a name with a comma, after a valid override.
C8_Witness ==
  /\ last.kind = "create"
  /\ last.overrides # Undefined
  /\ Len(last.overrides.some) = 2
  /\ MatchesTokenGrammar(last.overrides.some[1].name)
  /\ last.overrides.some[2].name = <<"a", ",", "b">>
  /\ ~last.out.ok
  /\ "headers" \notin DOMAIN last.out

\* The names of the set are one per name, whatever the letter case.
OneCasing(headers) ==
  \A n, m \in DOMAIN headers : ToLowerCase(n) = ToLowerCase(m) => n = m

\* The value a set holds under a name, whatever the letter case of the name.
ValueUnder(headers, name) ==
  {headers[n] : n \in {m \in DOMAIN headers : ToLowerCase(m) = ToLowerCase(name)}}

Overridden(overrides, name) ==
  \E i \in 1..Len(overrides) : ToLowerCase(overrides[i].name) = ToLowerCase(name)

DefaultsKept(before, overrides, headers) ==
  \A n \in DOMAIN before :
    ~Overridden(overrides, n) => ValueUnder(headers, n) = {before[n]}

\* The last entry of the overrides under the name of entry i, case ignored.
LastEntryNamed(overrides, i) ==
  CHOOSE j \in 1..Len(overrides) :
    /\ ToLowerCase(overrides[j].name) = ToLowerCase(overrides[i].name)
    /\ \A k \in (j + 1)..Len(overrides) :
         ToLowerCase(overrides[k].name) # ToLowerCase(overrides[i].name)

\* C9 as stated: in the set create(overrides) returns, every name given in
\* the overrides carries the override's value, also when the defaults hold the
\* name in another letter case; every default not overridden keeps its value;
\* no name appears twice under different casings.
C9_OverrideWins ==
  (last.kind = "create" /\ last.overrides # Undefined /\ last.out.ok)
    => /\ \A i \in 1..Len(last.overrides.some) :
            ValueUnder(last.out.headers, last.overrides.some[i].name)
              = {last.overrides.some[i].value}
       /\ DefaultsKept(last.before, last.overrides.some, last.out.headers)
       /\ OneCasing(last.out.headers)

\* C9, amended: every name given in the overrides carries the value of the
\* last override entry under that name, letter case ignored; every default not
\* overridden keeps its value; no name appears twice under different casings.
C9_LastOverrideWins ==
  (last.kind = "create" /\ last.overrides # Undefined /\ last.out.ok)
    => /\ \A i \in 1..Len(last.overrides.some) :
            ValueUnder(last.out.headers, last.overrides.some[i].name)
              = {last.overrides.some[LastEntryNamed(last.overrides.some, i)].value}
       /\ DefaultsKept(last.before, last.overrides.some, last.out.headers)
       /\ OneCasing(last.out.headers)

\* Overrides "Accept" then "accept" with another value, over a default
\* "accept" and a default the overrides leave alone.
C9_Witness ==
  /\ last.kind = "create"
  /\ last.overrides # Undefined
  /\ last.out.ok
  /\ <<"accept">> \in DOMAIN last.before
  /\ <<"x-id">> \in DOMAIN last.before
  /\ Len(last.overrides.some) = 2
  /\ last.overrides.some[1].name = <<"Accept">>
  /\ last.overrides.some[2].name = <<"accept">>
  /\ last.overrides.some[1].value # last.overrides.some[2].value
  /\ last.before[<<"accept">>] # last.overrides.some[2].value

\* The entries of the overrides of a call, none when it has none.
EntriesOf(overrides) == IF overrides = Undefined THEN <<>> ELSE overrides.some

\* The defaults overlaid with the overrides: under each name, letter case
\* ignored, the value of the last override of that name, else the default.
Overlay(before, overrides) ==
  [n \in DOMAIN before \cup {ToLowerCase(overrides[i].name) : i \in 1..Len(overrides)} |->
     IF \E i \in 1..Len(overrides) : ToLowerCase(overrides[i].name) = n
     THEN overrides[CHOOSE i \in 1..Len(overrides) :
                      /\ ToLowerCase(overrides[i].name) = n
                      /\ \A k \in (i + 1)..Len(overrides) :
                           ToLowerCase(overrides[k].name) # n].value
     ELSE before[n]]

\* C27: in any interleaving of create and setDefaultHeaders calls on one
\* HeaderFactory, a create returns the defaults as they are at the call
\* overlaid with the overrides of that call; the overrides of no call show
\* in the stored defaults (and so in no other call's result), and a set
\* already returned is not changed by a later setDefaultHeaders or create.
C27_CallsIsolated ==
  /\ (last.kind = "create")
       => /\ defaultHeaders = last.before
          /\ last.out.ok
               => last.out.headers = Overlay(last.before, EntriesOf(last.overrides))
          /\ last.heldIntact
  /\ (last.kind = "setDefaultHeaders") => last.heldIntact

\* setDefaultHeaders has changed the defaults while a caller holds the set
\* of the create before it.
C27_Witness ==
  /\ last.kind = "setDefaultHeaders"
  /\ last.held
  /\ last.changed
  /\ last.heldIntact
  /\ DOMAIN defaultHeaders # {}

\* Whether set() takes every name of the overrides.
NamesTaken(overrides) ==
  \A i \in 1..Len(overrides) : IsHttpToken(overrides[i].name)

\* The validators a run invokes on a merged set: those up to the first one
\* that rejects it, in the order they were added.
RECURSIVE InvokedUpTo(_, _)
InvokedUpTo(validators, merged) ==
  IF validators = <<>> THEN <<>>
  ELSE IF ~ValidatorAccepts(Head(validators), merged) THEN <<Head(validators)>>
  ELSE <<Head(validators)>> \o InvokedUpTo(Tail(validators), merged)

\* C28: in create the built-in validation of the names runs first and the
\* registered validators after it, in the order they were added; the first
\* validator that fails ends the run and create returns no set; no
\* validator is invoked when the built-in validation has failed.
C28_ValidatorsInOrder ==
  (last.kind = "create")
    => LET overrides == EntriesOf(last.overrides)
           merged == Overlay(last.before, overrides)
           rejecting == \E i \in 1..Len(customValidators) :
                          ~ValidatorAccepts(customValidators[i], merged)
       IN  IF ~NamesTaken(overrides) \/ ~isValidHeaderNames(merged)
           THEN /\ ~last.out.ok
                /\ last.out.invoked = <<>>
                /\ "headers" \notin DOMAIN last.out
           ELSE /\ last.out.invoked = InvokedUpTo(customValidators, merged)
                /\ last.out.ok = ~rejecting
                /\ rejecting => "headers" \notin DOMAIN last.out

\* Two validators registered, both reject the merged set: the first one
\* added is invoked, the second is not, and no set is returned.
C28_Witness ==
  /\ last.kind = "create"
  /\ Len(customValidators) = 2
  /\ ~last.out.ok
  /\ last.out.invoked = <<customValidators[1]>>
  /\ "headers" \notin DOMAIN last.out
  /\ LET merged == Overlay(last.before, EntriesOf(last.overrides))
     IN  /\ NamesTaken(EntriesOf(last.overrides))
         /\ ~ValidatorAccepts(customValidators[1], merged)
         /\ ~ValidatorAccepts(customValidators[2], merged)

\* ---------------------------------------------------- claims: header presets

AllWhitespace(token) == \A i \in 1..Len(token) : token[i] \in {" ", "\t"}

\* C10: bearerToken(token) fails for every token that is empty or holds
\* whitespace only, and for every other token returns the single header
\* Authorization = "Bearer " followed by the token.
C10_BearerToken ==
  (presetCall # None /\ presetCall.preset = "bearerToken")
    => IF AllWhitespace(presetCall.token)
       THEN ~presetOut.ok /\ "config" \notin DOMAIN presetOut
       ELSE /\ presetOut.ok
            /\ presetOut.config
                 = <<[name |-> <<"Authorization">>,
                      value |-> <<"Bearer ">> \o presetCall.token]>>

\* A token of whitespace only, refused.
C10_Witness ==
  /\ presetCall # None
  /\ presetCall.preset = "bearerToken"
  /\ presetCall.token # <<>>
  /\ AllWhitespace(presetCall.token)
  /\ ~presetOut.ok

\* ----------------------------------------------------- claims: error handler

\* Beside C12..C14: the handler of the default configuration is the handler
\* constructApi uses.
DefaultHandlerAgrees ==
  (errCall # None /\ errHandler = DefaultConfig)
    => errOut.ok /\ errOut.value = handle(errCall)

\* C12: handle returns an ApiError for every input (an HttpError, any other
\* Error, a value that is no error) under every configuration (logErrors on
\* or off, any logger, any status table); it never throws.
C12_HandleNeverThrows ==
  (errCall # None) => errOut.ok /\ errOut.value.kind = "ApiError"

\* Beside C12: handle returns whenever the status table is a table and the
\* logger, if it is called, returns.
HandleReturnsWhenLoggerDoes ==
  (/\ errCall # None
   /\ errHandler.statusMessages # Undefined
   /\ (errHandler.logErrors \in {Undefined, Some(FALSE)}
         \/ errHandler.logger \in {Some("console.error"), Some("custom")}))
    => errOut.ok /\ errOut.value.kind = "ApiError"

KnownNetworkPhrase(message) ==
  \E i \in 1..Len(message) : message[i] \in {"Network Error", "Failed to fetch"}

\* C13: for an input that is no HttpError, handle gives status 0 and
\* isNetworkError = TRUE for an Error whose message holds a known
\* network-failure phrase, status 0 and isNetworkError = FALSE for any other
\* Error, status 500 and isNetworkError = FALSE for a value that is no Error;
\* originalError is the input itself.
C13_Classification ==
  (errCall # None /\ errCall.kind # "HttpError" /\ errOut.ok)
    => /\ errOut.value.originalError = errCall
       /\ IF errCall.kind \in {"Error", "TypeError", "AbortError"}
          THEN /\ errOut.value.status = 0
               /\ errOut.value.isNetworkError = KnownNetworkPhrase(errCall.message)
          ELSE /\ errOut.value.status = 500
               /\ errOut.value.isNetworkError = FALSE

\* A string that holds a network phrase and is no Error: status 500.
C13_Witness ==
  /\ errCall = StringValue(<<"Network Error">>)
  /\ errOut.ok
  /\ errOut.value.status = 500
  /\ ~errOut.value.isNetworkError

\* The table C14 describes: the built-in defaults, and over them the
\* caller's entries.
ExpectedStatusMessage(config, status) ==
  IF /\ config.statusMessages \notin {None, Undefined}
     /\ status \in DOMAIN config.statusMessages.some
  THEN config.statusMessages.some[status]
  ELSE IF status \in {400, 401, 403, 404, 500} THEN StatusMessage(status)
  ELSE <<"HTTP Error ", StatusToken(status)>>

\* C14: for an HttpError, handle returns the error's status, isNetworkError
\* = FALSE, the error's data as details and a message of the status table:
\* the built-in defaults for 400, 401, 403, 404 and 500, the configured
\* message for a code the caller's table maps, "HTTP Error {status}" for a
\* code with no entry.
C14_HttpErrorMessage ==
  (errCall # None /\ errCall.kind = "HttpError" /\ errOut.ok)
    => /\ errOut.value.status = errCall.status
       /\ errOut.value.isNetworkError = FALSE
       /\ errOut.value.details = errCall.data
       /\ errOut.value.message = ExpectedStatusMessage(errConfig, errCall.status)

\* Beside C14: with no table configured the messages are as C14 says.
DefaultTableMessages ==
  (/\ errCall # None /\ errCall.kind = "HttpError" /\ errOut.ok
   /\ errConfig.statusMessages = None)
    => /\ errOut.value.status = errCall.status
       /\ errOut.value.isNetworkError = FALSE
       /\ errOut.value.details = errCall.data
       /\ errOut.value.message = ExpectedStatusMessage(errConfig, errCall.status)

\* ----------------------------------------------------- claims: cookie parser

\* The attribute of a sent cookie under a key, letter case ignored.
HasAttr(c, key) == \E i \in 1..Len(c.attrs) : LowerTok(c.attrs[i].key) = key

AttrVal(c, key) ==
  c.attrs[CHOOSE i \in 1..Len(c.attrs) : LowerTok(c.attrs[i].key) = key].val

\* A sent cookie all of whose attributes are well formed.
WellFormed(c) == \A i \in 1..Len(c.attrs) : c.attrs[i] \in WellFormedAttrs

AllWellFormed(cs) == \A i \in 1..Len(cs) : WellFormed(cs[i])

\* C15: a set-cookie value holding one cookie whose Expires attribute is an
\* HTTP date with a comma in it is parsed into exactly one cookie, whose
\* expires is the timestamp of the whole date.
C15_ExpiresDateNotSplit ==
  (/\ cookieCall # None
   /\ Len(cookieCall.cookies) = 1
   /\ WellFormed(cookieCall.cookies[1])
   /\ HasAttr(cookieCall.cookies[1], "expires")
   /\ ~HasAttr(cookieCall.cookies[1], "max-age"))
    => /\ cookieOut.ok
       /\ Len(cookieOut.cookies) = 1
       /\ cookieOut.cookies[1].expires = [valid |-> TRUE, time |-> 37094000]

\* Beside C15: it is so when the attribute is spelled "Expires".
ExpiresAsSpelledNotSplit ==
  (/\ cookieCall # None
   /\ Len(cookieCall.cookies) = 1
   /\ WellFormed(cookieCall.cookies[1])
   /\ \E i \in 1..Len(cookieCall.cookies[1].attrs) :
        cookieCall.cookies[1].attrs[i].key = "Expires"
   /\ ~HasAttr(cookieCall.cookies[1], "max-age"))
    => /\ cookieOut.ok
       /\ Len(cookieOut.cookies) = 1
       /\ cookieOut.cookies[1].expires = [valid |-> TRUE, time |-> 37094000]

\* What C16 expects of one sent cookie.
ExpectedCookie(c, parsed) ==
  /\ parsed.path = IF HasAttr(c, "path") THEN AttrVal(c, "path") ELSE Undefined
  /\ parsed.domain = IF HasAttr(c, "domain") THEN AttrVal(c, "domain") ELSE Undefined
  /\ parsed.secure = HasAttr(c, "secure")
  /\ parsed.httpOnly = HasAttr(c, "httponly")
  /\ parsed.sameSite = Undefined
  /\ parsed.expires = IF HasAttr(c, "max-age")
                      THEN [valid |-> TRUE, time |-> Now + 60 * 1000] ELSE NoDate

NoExpires(cs) == \A i \in 1..Len(cs) : ~HasAttr(cs[i], "expires")

\* C16: comma-separated cookies without Expires attributes give one cookie
\* per segment, in order; Path and Domain are recorded verbatim, Secure and
\* HttpOnly become true when present, Max-Age=n sets expires to now + n*1000
\* ms, attributes that are absent stay unset.
C16_AttributesRecorded ==
  (/\ cookieCall # None /\ NoExpires(cookieCall.cookies)
   /\ AllWellFormed(cookieCall.cookies))
    => /\ cookieOut.ok
       /\ Len(cookieOut.cookies) = Len(cookieCall.cookies)
       /\ \A i \in 1..Len(cookieCall.cookies) :
            /\ cookieOut.cookies[i].name = <<PctDecoded(cookieCall.cookies[i].name)>>
            /\ ExpectedCookie(cookieCall.cookies[i], cookieOut.cookies[i])

\* Beside C16: it is so when no Path or Domain value holds a "=".
AttributesRecordedWithoutEquals ==
  (/\ cookieCall # None /\ NoExpires(cookieCall.cookies)
   /\ AllWellFormed(cookieCall.cookies)
   /\ \A i \in 1..Len(cookieCall.cookies) :
        \A j \in 1..Len(cookieCall.cookies[i].attrs) :
          cookieCall.cookies[i].attrs[j].val = Undefined
            \/ ~Includes(cookieCall.cookies[i].attrs[j].val.some, <<"=">>))
    => /\ cookieOut.ok
       /\ Len(cookieOut.cookies) = Len(cookieCall.cookies)
       /\ \A i \in 1..Len(cookieCall.cookies) :
            /\ cookieOut.cookies[i].name = <<PctDecoded(cookieCall.cookies[i].name)>>
            /\ ExpectedCookie(cookieCall.cookies[i], cookieOut.cookies[i])

\* Beside C16: the header of its example gives the two cookies it names.
ExampleOfTwoCookies ==
  parseSetCookies(Some(<<"a", "=", "1", ";", " ", "Path", "=", "/", ";", " ",
                         "HttpOnly", ",", " ", "b", "=", "2", ";", " ",
                         "Max-Age", "=", "60">>))
    = [ok |-> TRUE,
       cookies |->
         <<[name |-> <<"a">>, value |-> <<"1">>, domain |-> Undefined,
            path |-> Some(<<"/">>), expires |-> NoDate, secure |-> FALSE,
            httpOnly |-> TRUE, sameSite |-> Undefined],
           [name |-> <<"b">>, value |-> <<"2">>, domain |-> Undefined,
            path |-> Undefined, expires |-> [valid |-> TRUE, time |-> Now + 60000],
            secure |-> FALSE, httpOnly |-> FALSE, sameSite |-> Undefined]>>]

\* The place of the attribute spelled key in a sent cookie, 0 when absent.
PlaceOf(c, key) ==
  IF \E i \in 1..Len(c.attrs) : c.attrs[i].key = key
  THEN CHOOSE i \in 1..Len(c.attrs) : c.attrs[i].key = key
  ELSE 0

\* One cookie sent, well formed, with an Expires and a Max-Age attribute.
ExpiresAndMaxAge ==
  /\ cookieCall # None
  /\ Len(cookieCall.cookies) = 1
  /\ WellFormed(cookieCall.cookies[1])
  /\ PlaceOf(cookieCall.cookies[1], "Expires") > 0
  /\ PlaceOf(cookieCall.cookies[1], "Max-Age") > 0

\* C23: for a cookie that carries both an Expires and a Max-Age attribute
\* the parsed expires is now + Max-Age * 1000 ms, in either order of the two
\* attributes.
C23_MaxAgeWins ==
  ExpiresAndMaxAge
    => /\ cookieOut.ok
       /\ Len(cookieOut.cookies) = 1
       /\ cookieOut.cookies[1].expires = [valid |-> TRUE, time |-> Now + 60 * 1000]

\* Beside C23: the later of the two attributes sets expires.
LaterOfExpiresAndMaxAgeWins ==
  ExpiresAndMaxAge
    => /\ cookieOut.ok
       /\ Len(cookieOut.cookies) = 1
       /\ cookieOut.cookies[1].expires
            = IF PlaceOf(cookieCall.cookies[1], "Expires")
                   < PlaceOf(cookieCall.cookies[1], "Max-Age")
              THEN [valid |-> TRUE, time |-> Now + 60 * 1000]
              ELSE [valid |-> TRUE, time |-> 37094000]

\* The text a sent cookie carries as its value, empty when it carries none.
SentValue(c) == IF c.value = Undefined THEN <<>> ELSE c.value.some

\* One cookie sent, well formed, with no Expires attribute.
OneCookieNoExpires ==
  /\ cookieCall # None
  /\ Len(cookieCall.cookies) = 1
  /\ WellFormed(cookieCall.cookies[1])
  /\ ~HasAttr(cookieCall.cookies[1], "expires")

NameAndValueWhole ==
  /\ cookieOut.ok
  /\ Len(cookieOut.cookies) = 1
  /\ cookieOut.cookies[1].name = <<PctDecoded(cookieCall.cookies[1].name)>>
  /\ cookieOut.cookies[1].value
       = [i \in 1..Len(SentValue(cookieCall.cookies[1])) |->
            PctDecoded(SentValue(cookieCall.cookies[1])[i])]
  /\ HasAttr(cookieCall.cookies[1], "path")
       => cookieOut.cookies[1].path = AttrVal(cookieCall.cookies[1], "path")
  /\ HasAttr(cookieCall.cookies[1], "domain")
       => cookieOut.cookies[1].domain = AttrVal(cookieCall.cookies[1], "domain")

\* C24: the name of a cookie is the text before the first "=" of its first
\* piece and the value all the text after that "=", a "=" in it included,
\* both percent-decoded; a missing or empty value is the empty string; an
\* attribute is split the same way, at its first "=".
C24_SplitAtFirstEquals == OneCookieNoExpires => NameAndValueWhole

\* Beside C24: it is so when neither the value nor an attribute's value
\* holds a "=".
SplitWithoutSecondEquals ==
  (/\ OneCookieNoExpires
   /\ ~Includes(SentValue(cookieCall.cookies[1]), <<"=">>)
   /\ \A j \in 1..Len(cookieCall.cookies[1].attrs) :
        cookieCall.cookies[1].attrs[j].val = Undefined
          \/ ~Includes(cookieCall.cookies[1].attrs[j].val.some, <<"=">>))
    => NameAndValueWhole

\* Two cookies sent, the first with an Expires attribute, all well formed.
CookieAfterExpires ==
  /\ cookieCall # None
  /\ Len(cookieCall.cookies) = 2
  /\ AllWellFormed(cookieCall.cookies)
  /\ PlaceOf(cookieCall.cookies[1], "Expires") > 0

\* C25: a cookie with an Expires attribute followed by ", " and another
\* cookie gives one cookie for each; the later cookie's text is not taken
\* into the attributes of the earlier one.
C25_SplitBetweenCookies ==
  CookieAfterExpires
    => /\ cookieOut.ok
       /\ Len(cookieOut.cookies) = 2
       /\ cookieOut.cookies[1].name = <<"a">>
       /\ cookieOut.cookies[2].name = <<"b">>

\* Beside C25: after "Expires=" no comma splits, and the header gives the
\* first cookie only.
ExpiresEndsSplitting ==
  CookieAfterExpires
    => /\ cookieOut.ok
       /\ Len(cookieOut.cookies) = 1
       /\ cookieOut.cookies[1].name = <<"a">>

\* Some cookie sent has a malformed attribute.
MalformedSent ==
  /\ cookieCall # None
  /\ \E i \in 1..Len(cookieCall.cookies) :
       \E j \in 1..Len(cookieCall.cookies[i].attrs) :
         cookieCall.cookies[i].attrs[j] \in MalformedAttrs

\* What stays parsed of the cookies sent: each cookie, its name, its
\* Domain, Secure and HttpOnly attributes, and the invalid timestamp of a
\* date that does not parse.
OthersStillParsed ==
  /\ cookieOut.ok
  /\ Len(cookieOut.cookies) = Len(cookieCall.cookies)
  /\ \A i \in 1..Len(cookieCall.cookies) :
       LET c == cookieCall.cookies[i]
           parsed == cookieOut.cookies[i]
       IN  /\ parsed.name = <<PctDecoded(c.name)>>
           /\ parsed.domain
                = IF HasAttr(c, "domain") THEN AttrVal(c, "domain") ELSE Undefined
           /\ parsed.secure = HasAttr(c, "secure")
           /\ parsed.httpOnly = HasAttr(c, "httponly")
           /\ ([key |-> "Expires", val |-> Some(<<"garbage">>)]
                 \in {c.attrs[j] : j \in 1..Len(c.attrs)}
               /\ ~HasAttr(c, "max-age"))
                => parsed.expires = InvalidDate

\* C26: a malformed attribute (no "=value", an unknown name, a date that
\* does not parse, a Max-Age that is no number) never aborts the parse:
\* parseSetCookies does not throw, the other attributes of the cookie and
\* all other cookies are parsed, and the date that does not parse is
\* recorded as an invalid timestamp.
C26_MalformedAttributeSkipped == MalformedSent => OthersStillParsed

\* Beside C26: it is so when no Expires attribute stands before a comma
\* that separates two cookies or, spelled in lower case, before the comma
\* of its own date.
MalformedSkippedWithoutExpiresComma ==
  (/\ MalformedSent
   /\ \A i \in 1..Len(cookieCall.cookies) :
        /\ PlaceOf(cookieCall.cookies[i], "expires") = 0
        /\ i < Len(cookieCall.cookies) => PlaceOf(cookieCall.cookies[i], "Expires") = 0)
    => OthersStillParsed

\* ------------------------------------------------------------ claims: client

UpperVerb(verb) ==
  CASE verb = "get" -> "GET"
    [] verb = "post" -> "POST"
    [] verb = "put" -> "PUT"
    [] verb = "delete" -> "DELETE"
    [] verb = "patch" -> "PATCH"

\* What a verb passes on whatever its parameters are called: the path, the
\* client's baseUrl and a copy of the client's headers.
DispatchedFromClient ==
  /\ jamCall.dispatched.url.endpoint = jamCall.url
  /\ jamCall.dispatched.url.baseUrl = jam.baseUrl
  /\ jamCall.dispatched.headers
       = (IF jam.headers = Undefined THEN <<>> ELSE jam.headers.some)

\* C20: each verb of JamClient, called as (path, payload, queryParams),
\* dispatches a request whose method is that verb, with the client's
\* current baseUrl, the given queryParams and payload and a copy of the
\* client's current headers; delete issues a DELETE request.
C20_VerbDispatch ==
  (jamCall # None)
    => /\ jamCall.dispatched.method = UpperVerb(jamCall.verb)
       /\ jamCall.dispatched.payload = jamCall.arg2
       /\ jamCall.dispatched.url.queryParams = jamCall.arg3
       /\ DispatchedFromClient

\* Beside C20: it is so for get, post, put and patch; delete passes on the
\* path, the baseUrl and the headers, takes the query parameters second and
\* the payload third, and names the method PUT.
VerbDispatchButDelete ==
  (jamCall # None)
    => /\ DispatchedFromClient
       /\ IF jamCall.verb = "delete"
          THEN /\ jamCall.dispatched.method = "PUT"
               /\ jamCall.dispatched.url.queryParams = jamCall.arg2
               /\ jamCall.dispatched.payload = jamCall.arg3
          ELSE /\ jamCall.dispatched.method = UpperVerb(jamCall.verb)
               /\ jamCall.dispatched.payload = jamCall.arg2
               /\ jamCall.dispatched.url.queryParams = jamCall.arg3

====
